---- MODULE Spec2Model ----
(***************************************************************************)
(* Model of the CodeGuardian security scan engine: SecurityScanEngine.scan *)
(* with its two analyzers (StaticAnalyzer, LLMAnalyzer) run under          *)
(* Promise.allSettled, ResultAggregator, Deduplicator and Formatter, and   *)
(* of the RateLimiter in front of it in the ApiServer.                     *)
(*                                                                         *)
(* Texts are TLA+ strings.  Rule names, descriptions and categories are    *)
(* shortened (the Levenshtein table is quadratic in the title length);     *)
(* what the code computes on them is computed the same way here.           *)
(***************************************************************************)
EXTENDS Integers, Sequences, FiniteSets, TLC

\* Bounds of the model.
MaxLines == 2        \* lines of a submitted source text
MaxVulns == 2        \* elements of an array returned by the remote service
MaxClock == 2        \* clock ticks that may pass while the scan awaits
TimeoutTicks == 1    \* LLMAnalyzer.timeout, in clock ticks
MaxLen == 3          \* length of a list handed to deduplicate on its own
MaxFindings == 2     \* issues of an AnalyzerResult handed to aggregate on its own
MaxTime == 4         \* clock ticks that may pass while the API server runs
MaxCalls == 4        \* scan requests the API server handles
WindowMs == 2        \* RateLimitConfig.windowMs (60000), in clock ticks
MaxRequests == 2     \* RateLimitConfig.maxRequests (10)

VARIABLES
  pc,          \* position of scan(): "idle", "analyzing", "done"
  code,        \* the code argument of scan()
  language,    \* the language argument of scan()
  startTime,   \* const startTime = Date.now()
  now,         \* the clock, Date.now()
  detected,    \* detectedLanguage
  parsedCode,  \* parsedCode (its lines)
  staticTask,  \* the promise of runStaticAnalyzer(parsedCode)
  llmTask,     \* the promise of runLLMAnalyzer(parsedCode)
  fetchState,  \* the remote call of callLLMWithTimeout
  timer,       \* the setTimeout of callLLMWithTimeout: armed, deadline
  calls,       \* collaborators invoked so far, in call order
  settled,     \* adapter tags in the order their promises settled
  faults,      \* adapters in which a failure was raised
  aggregated,  \* aggregatedIssues, once computed
  result,      \* the ScanResult returned
  x,           \* the argument of an operation run on its own
  once,        \* deduplicate(x), aggregate(x), the issues of format(x), or
               \* parseResponse of the content of x
  twice,       \* deduplicate(deduplicate(x)), or the issues mapped from once
  stage,       \* how many passes have run over x
  scans,       \* the local variables of two invocations of scan on one engine
  requests,    \* RateLimiter.requests: the entry stored for each identifier
  responses    \* the responses of handleScanRequest, in the order sent

vars == <<pc, code, language, startTime, now, detected, parsedCode, staticTask,
          llmTask, fetchState, timer, calls, settled, faults, aggregated,
          result, x, once, twice, stage, scans, requests, responses>>

scanVars == <<pc, code, language, startTime, now, detected, parsedCode,
              staticTask, llmTask, fetchState, timer, calls, settled, faults,
              aggregated, result>>

dedupVars == <<x, once, twice, stage, scans, requests, responses>>

-----------------------------------------------------------------------------
(* String helpers: String.prototype.toLowerCase and String.prototype.trim  *)

UpperLetters == "ABCDEFGHIJKLMNOPQRSTUVWXYZ"
LowerLetters == "abcdefghijklmnopqrstuvwxyz"

CharAt(s, i) == SubSeq(s, i, i)

LowerChar(c) ==
  LET hits == {i \in 1..Len(UpperLetters) : CharAt(UpperLetters, i) = c}
  IN IF hits = {} THEN c ELSE CharAt(LowerLetters, CHOOSE i \in hits : TRUE)

RECURSIVE ToLowerCase(_)
ToLowerCase(s) ==
  IF Len(s) = 0 THEN ""
  ELSE LowerChar(CharAt(s, 1)) \o ToLowerCase(SubSeq(s, 2, Len(s)))

RECURSIVE TrimStart(_)
TrimStart(s) ==
  IF Len(s) > 0 /\ CharAt(s, 1) = " " THEN TrimStart(SubSeq(s, 2, Len(s)))
  ELSE s

RECURSIVE TrimEnd(_)
TrimEnd(s) ==
  IF Len(s) > 0 /\ CharAt(s, Len(s)) = " "
  THEN TrimEnd(SubSeq(s, 1, Len(s) - 1))
  ELSE s

Trim(s) == TrimEnd(TrimStart(s))

Min2(a, b) == IF a <= b THEN a ELSE b
Max2(a, b) == IF a >= b THEN a ELSE b
Abs(n) == IF n < 0 THEN 0 - n ELSE n

-----------------------------------------------------------------------------
(* models/types: SeverityLevel, Language, AnalyzerSource                   *)

SeverityLevel == {"critical", "high", "medium", "low", "info"}
Language == {"javascript", "typescript", "unknown"}
AnalyzerSource == {"static", "llm", "merged"}

\* An identifier.  uuidv4() gives a fresh one: tag "uuid", told apart by the
\* adapter (line: 1 static, 2 llm) and the index of the finding; generateId
\* gives prefix-line-timestamp-index; "" is the missing identifier.
Id(tag, line, ts, n) == [tag |-> tag, line |-> line, ts |-> ts, n |-> n]
NoId == Id("", 0, 0, 0)
Uuid(adapter, n) == Id("uuid", adapter, 0, n)

Issue(id, title, description, severity, owaspCategory, line, columnStart, columnEnd, fix, source, codeSnippet) ==
  [id |-> id, title |-> title, description |-> description,
   severity |-> severity, owaspCategory |-> owaspCategory, line |-> line,
   columnStart |-> columnStart, columnEnd |-> columnEnd, fix |-> fix,
   source |-> source, codeSnippet |-> codeSnippet]

-----------------------------------------------------------------------------
(* StaticAnalyzer                                                          *)

\* initializeRules: the four rules, in order.  A rule's pattern is kept as
\* its index: which lines it matches is part of the line (see Lines).
Rules ==
  << [id |-> "sql-injection", name |-> "SQLi", severity |-> "high",
      owaspCategory |-> "A03:2021 - Injection",
      description |-> "sql concat", fix |-> "use params"],
     [id |-> "xss-vulnerability", name |-> "XSS", severity |-> "high",
      owaspCategory |-> "A03:2021 - Injection",
      description |-> "html insert", fix |-> "use textContent"],
     [id |-> "hardcoded-credentials", name |-> "Cred", severity |-> "high",
      owaspCategory |-> "A07:2021 - Auth",
      description |-> "secret in code", fix |-> "use env"],
     [id |-> "insecure-cryptography", name |-> "Hash", severity |-> "high",
      owaspCategory |-> "A02:2021 - Crypto",
      description |-> "broken hash", fix |-> "use sha256"] >>

GetRuleCount == Len(Rules)

\* A line of source text: its text, and the matches
\* line.matchAll(new RegExp(rule.pattern, 'g')) finds in it, per rule, in
\* match order (index: match.index, length: match[0].length).
CleanLine == [text |-> " x=1", matches |-> [r \in 1..4 |-> <<>>]]
SqlLine ==
  [text |-> "q='S'+i",
   matches |-> [r \in 1..4 |->
                  IF r = 1 THEN <<[index |-> 2, length |-> 4]>> ELSE <<>>]]
HashLine ==
  [text |-> "md5 sha1",
   matches |-> [r \in 1..4 |->
                  IF r = 4 THEN <<[index |-> 0, length |-> 3],
                                  [index |-> 4, length |-> 4]>>
                  ELSE <<>>]]
Lines == {CleanLine, SqlLine, HashLine}

RECURSIVE SeqsUpTo(_, _)
SeqsUpTo(S, n) ==
  IF n = 0 THEN {<<>>}
  ELSE LET shorter == SeqsUpTo(S, n - 1)
       IN shorter \cup {Append(s, e) : s \in {t \in shorter : Len(t) = n - 1},
                                       e \in S}

\* matchRule: one issue per match, id uuidv4().  seen is the number of issues
\* pushed before, which tells the fresh ids apart.
MatchRule(line, r, lineNumber, seen) ==
  LET ms == line.matches[r]
  IN [k \in 1..Len(ms) |->
        Issue(Uuid(1, seen + k), Rules[r].name, Rules[r].description,
              Rules[r].severity, Rules[r].owaspCategory, lineNumber,
              ms[k].index, ms[k].index + ms[k].length, Rules[r].fix,
              "static", Trim(line.text))]

RECURSIVE AnalyzeLine(_, _, _, _)
AnalyzeLine(line, lineNumber, r, issues) ==
  IF r > Len(Rules) THEN issues
  ELSE AnalyzeLine(line, lineNumber, r + 1,
                   issues \o MatchRule(line, r, lineNumber, Len(issues)))

RECURSIVE StaticAnalyzeFrom(_, _, _)
StaticAnalyzeFrom(lines, index, issues) ==
  IF index > Len(lines) THEN issues
  ELSE StaticAnalyzeFrom(lines, index + 1,
                         AnalyzeLine(lines[index], index, 1, issues))

\* StaticAnalyzer.analyze: every line (lineNumber = index + 1), every rule.
StaticAnalyze(lines) == StaticAnalyzeFrom(lines, 1, <<>>)

-----------------------------------------------------------------------------
(* LLMAnalyzer                                                             *)

RequiredFields ==
  {"title", "description", "severity", "owaspCategory", "line", "fix"}

\* An element of the parsed array: type is its typeof ("object" for null
\* too, as in JavaScript), isNull tells null apart, has is the set of fields
\* present with the type isValidVulnerability asks for (columns: present).
Vuln(title, description, severity, owaspCategory, line, columnStart, columnEnd, fix, has) ==
  [type |-> "object", isNull |-> FALSE, has |-> has, title |-> title,
   description |-> description, severity |-> severity,
   owaspCategory |-> owaspCategory, line |-> line,
   columnStart |-> columnStart, columnEnd |-> columnEnd, fix |-> fix]

AllFields == RequiredFields \cup {"columnStart", "columnEnd"}

VulnSql ==
  Vuln("sqli ", "sql built from user input", "Critical", "A03:2021 Injection",
       2, 0, 0, "bind parameters", RequiredFields)
VulnNear ==
  Vuln("SQLx", "query", "high", "A03:2021", 1, 5, 0, "escape",
       RequiredFields \cup {"columnStart"})
VulnHash ==
  Vuln("Hash", "", "severe", "A02:2021 - Crypto", 0, 4, 2, "", AllFields)
VulnNoFix ==
  Vuln("Oops", "no fix given", "Low", "A03:2021", 1, 0, 0, "",
       RequiredFields \ {"fix"})
VulnNull ==
  [type |-> "object", isNull |-> TRUE, has |-> {}, title |-> "",
   description |-> "", severity |-> "", owaspCategory |-> "", line |-> 0,
   columnStart |-> 0, columnEnd |-> 0, fix |-> ""]

Elements == {VulnSql, VulnNear, VulnHash, VulnNoFix, VulnNull}

\* The content of the service's message: lines of text, each a record.
\* kind "fence" is a line of three backquotes, "fencejson" the same followed
\* by json; the line that holds the JSON text has kind "array" (with its
\* elements), "object" (valid JSON, not an array) or "garbage" (JSON.parse
\* throws).
Json(kind, elems) == [kind |-> kind, elems |-> elems]
Fence == Json("fence", <<>>)
FenceJson == Json("fencejson", <<>>)
Bodies ==
  {Json("array", es) : es \in SeqsUpTo(Elements, MaxVulns)}
    \cup {Json("object", <<>>), Json("garbage", <<>>)}
FencedBodies == {Json("array", <<>>), Json("array", <<VulnSql>>)}
Contents ==
  {<<b>> : b \in Bodies}
    \cup {<<FenceJson, b, Fence>> : b \in FencedBodies}
    \cup {<<Fence, b>> : b \in FencedBodies}

\* jsonStr.startsWith of three backquotes, on the first line
IsFence(l) == l.kind \in {"fence", "fencejson"}

\* parseResponse, up to JSON.parse: drop an opening fence line and a closing
\* one; what is left must be one JSON text.
StripFence(content) ==
  IF Len(content) > 0 /\ IsFence(content[1])
  THEN LET lines == Tail(content)
       IN IF Len(lines) > 0 /\ lines[Len(lines)] = Fence
          THEN SubSeq(lines, 1, Len(lines) - 1)
          ELSE lines
  ELSE content

\* isValidVulnerability; "throw" is the TypeError of reading a field of null.
IsValidVulnerability(vuln) ==
  IF vuln.type # "object" THEN "false"
  ELSE IF vuln.isNull THEN "throw"
  ELSE IF RequiredFields \subseteq vuln.has THEN "true" ELSE "false"

\* parseResponse: the catch returns [] for anything thrown inside.
ParseResponse(content) ==
  LET stripped == StripFence(content)
  IN IF Len(stripped) # 1 \/ IsFence(stripped[1]) THEN <<>>
     ELSE LET parsed == stripped[1]
          IN IF parsed.kind = "garbage" THEN <<>>
             ELSE IF parsed.kind # "array" THEN <<>>
             ELSE IF \E i \in 1..Len(parsed.elems) :
                       IsValidVulnerability(parsed.elems[i]) = "throw"
                  THEN <<>>
                  ELSE SelectSeq(parsed.elems,
                                 LAMBDA v : IsValidVulnerability(v) = "true")

\* normalizeSeverity
NormalizeSeverity(severity) ==
  LET normalized == ToLowerCase(severity)
  IN IF normalized \in SeverityLevel THEN normalized ELSE "medium"

\* A mapping that takes the given column bounds only when both are given.
MapToVulnerabilityIssuesPaired(vulnerabilities, lines) ==
  [k \in 1..Len(vulnerabilities) |->
     LET vuln == vulnerabilities[k]
         lineIndex == vuln.line - 1
         inRange == lineIndex >= 0 /\ lineIndex < Len(lines)
         codeLine == IF inRange THEN lines[lineIndex + 1].text ELSE ""
         both == {"columnStart", "columnEnd"} \subseteq vuln.has
         columnStart == IF both THEN vuln.columnStart ELSE 0
         columnEnd == IF both THEN vuln.columnEnd ELSE Len(codeLine)
     IN Issue(Uuid(2, k), vuln.title, vuln.description,
              NormalizeSeverity(vuln.severity), vuln.owaspCategory,
              vuln.line, columnStart, columnEnd, vuln.fix, "llm", codeLine)]

\* mapToVulnerabilityIssues
MapToVulnerabilityIssues(vulnerabilities, lines) ==
  [k \in 1..Len(vulnerabilities) |->
     LET vuln == vulnerabilities[k]
         lineIndex == vuln.line - 1
         inRange == lineIndex >= 0 /\ lineIndex < Len(lines)
         codeLine == IF inRange THEN lines[lineIndex + 1].text ELSE ""
         columnStart == IF "columnStart" \in vuln.has THEN vuln.columnStart
                        ELSE 0
         columnEnd == IF "columnEnd" \in vuln.has THEN vuln.columnEnd
                      ELSE Len(codeLine)
     IN Issue(Uuid(2, k), vuln.title, vuln.description,
              NormalizeSeverity(vuln.severity), vuln.owaspCategory,
              vuln.line, columnStart, columnEnd, vuln.fix, "llm", codeLine)]

-----------------------------------------------------------------------------
(* ResultAggregator                                                        *)

\* An AnalyzerResult.
AnalyzerResult(source, issues, errors) ==
  [source |-> source, issues |-> issues, errors |-> errors]

RECURSIVE Flatten(_)
Flatten(seqs) == IF seqs = <<>> THEN <<>> ELSE Head(seqs) \o Flatten(Tail(seqs))

\* An aggregate that tags every issue with the source of its result.
AggregateRetag(results) ==
  Flatten([r \in 1..Len(results) |->
             [k \in 1..Len(results[r].issues) |->
                [results[r].issues[k] EXCEPT !.source = results[r].source]]])

\* aggregate: the issues of every result, in the order of the results, each
\* with source: issue.source || result.source.
Aggregate(results) ==
  Flatten([r \in 1..Len(results) |->
             [k \in 1..Len(results[r].issues) |->
                LET issue == results[r].issues[k]
                IN [issue EXCEPT !.source =
                      IF issue.source # "" THEN issue.source
                      ELSE results[r].source]]])

\* A getErrors that hands the errors on as they are.
GetErrorsBare(results) ==
  Flatten([r \in 1..Len(results) |-> results[r].errors])

\* getErrors: every error, prefixed with [source].
GetErrors(results) ==
  Flatten([r \in 1..Len(results) |->
             [k \in 1..Len(results[r].errors) |->
                "[" \o results[r].source \o "] " \o results[r].errors[k]]])

-----------------------------------------------------------------------------
(* Deduplicator                                                            *)

LINE_TOLERANCE == 1
\* FUZZY_MATCH_THRESHOLD = 0.7, as a fraction
FUZZY_MATCH_THRESHOLD == <<7, 10>>

IsDigit(c) == c \in {"0", "1", "2", "3", "4", "5", "6", "7", "8", "9"}

\* category.match(/A\d{2}:\d{4}/) at position i
CodeAt(category, i) ==
  /\ i + 7 <= Len(category)
  /\ CharAt(category, i) = "A"
  /\ \A k \in {1, 2, 4, 5, 6, 7} : IsDigit(CharAt(category, i + k))
  /\ CharAt(category, i + 3) = ":"

\* normalizeOwaspCategory: the first match of the code, else the category
\* lower-cased and trimmed.
NormalizeOwaspCategory(category) ==
  LET hits == {i \in 1..Len(category) : CodeAt(category, i)}
  IN IF hits # {}
     THEN LET first == CHOOSE i \in hits : \A k \in hits : i <= k
          IN SubSeq(category, first, first + 7)
     ELSE Trim(ToLowerCase(category))

\* One row of the dp table of levenshteinDistance: position p of a row holds
\* dp[i][p - 1]; prev is row i - 1, cur the part of row i filled so far.
RECURSIVE LevRow(_, _, _, _, _)
LevRow(str1, str2, i, prev, cur) ==
  IF Len(cur) = Len(str2) + 1 THEN cur
  ELSE LET j == Len(cur)
           cell == IF CharAt(str1, i) = CharAt(str2, j) THEN prev[j]
                   ELSE Min2(prev[j + 1] + 1, Min2(cur[j] + 1, prev[j] + 1))
       IN LevRow(str1, str2, i, prev, Append(cur, cell))

RECURSIVE LevRows(_, _, _, _)
LevRows(str1, str2, i, prev) ==
  IF i > Len(str1) THEN prev
  ELSE LevRows(str1, str2, i + 1, LevRow(str1, str2, i, prev, <<i>>))

LevenshteinDistance(str1, str2) ==
  LevRows(str1, str2, 1, [p \in 1..(Len(str2) + 1) |-> p - 1])[Len(str2) + 1]

\* calculateSimilarity, as the fraction <<numerator, denominator>>:
\* 1 - distance / maxLength = (maxLength - distance) / maxLength.
CalculateSimilarity(str1, str2) ==
  LET s1 == Trim(ToLowerCase(str1))
      s2 == Trim(ToLowerCase(str2))
  IN IF s1 = s2 THEN <<1, 1>>
     ELSE LET distance == LevenshteinDistance(s1, s2)
              maxLength == Max2(Len(s1), Len(s2))
          IN IF maxLength = 0 THEN <<1, 1>>
             ELSE <<maxLength - distance, maxLength>>

\* a >= b on fractions with positive denominators
FracGeq(a, b) == a[1] * b[2] >= b[1] * a[2]

\* A comparison that leaves the line numbers out.
IsDuplicateAnyLine(issue1, issue2) ==
  /\ NormalizeOwaspCategory(issue1.owaspCategory)
       = NormalizeOwaspCategory(issue2.owaspCategory)
  /\ FracGeq(CalculateSimilarity(issue1.title, issue2.title),
             FUZZY_MATCH_THRESHOLD)

IsDuplicate(issue1, issue2) ==
  LET lineMatch == Abs(issue1.line - issue2.line) <= LINE_TOLERANCE
      owaspMatch == NormalizeOwaspCategory(issue1.owaspCategory)
                      = NormalizeOwaspCategory(issue2.owaspCategory)
      titleSimilarity == CalculateSimilarity(issue1.title, issue2.title)
  IN IF ~lineMatch THEN FALSE
     ELSE IF ~owaspMatch THEN FALSE
     ELSE FracGeq(titleSimilarity, FUZZY_MATCH_THRESHOLD)

SeverityOrder == <<"critical", "high", "medium", "low", "info">>

\* getHighestSeverity: the first level of severityOrder that is present
GetHighestSeverity(severities) ==
  LET present == {k \in 1..Len(SeverityOrder) :
                    \E i \in 1..Len(severities) : severities[i] = SeverityOrder[k]}
  IN IF present # {}
     THEN SeverityOrder[CHOOSE k \in present : \A m \in present : k <= m]
     ELSE IF Len(severities) > 0 THEN severities[1] ELSE "medium"

\* A reduce that lets a later text of equal length replace the best so far.
RECURSIVE LongestLast(_, _, _)
LongestLast(texts, k, best) ==
  IF k > Len(texts) THEN best
  ELSE LongestLast(texts, k + 1,
                   IF Len(texts[k]) >= Len(best) THEN texts[k] ELSE best)

\* duplicates.reduce((best, current) => len(current) > len(best) ? current : best)
RECURSIVE Longest(_, _, _)
Longest(texts, k, best) ==
  IF k > Len(texts) THEN best
  ELSE Longest(texts, k + 1, IF Len(texts[k]) > Len(best) THEN texts[k] ELSE best)

\* A base issue that is always the first member of the cluster.
BaseIssueFirst(duplicates) == duplicates[1]

\* The base issue of a cluster: the first llm-sourced member, else the first.
BaseIssue(duplicates) ==
  LET llm == {k \in 1..Len(duplicates) : duplicates[k].source = "llm"}
  IN IF llm # {}
     THEN duplicates[CHOOSE k \in llm : \A m \in llm : k <= m]
     ELSE duplicates[1]

\* A merge that tags every cluster of two or more members as merged.
MergeDuplicatesTagged(duplicates) ==
  IF Len(duplicates) = 1 THEN duplicates[1]
  ELSE LET baseIssue == BaseIssue(duplicates)
           descriptions == [k \in 1..Len(duplicates) |-> duplicates[k].description]
           fixes == [k \in 1..Len(duplicates) |-> duplicates[k].fix]
       IN [baseIssue EXCEPT
             !.source = "merged",
             !.description = Longest(descriptions, 2, descriptions[1]),
             !.fix = Longest(fixes, 2, fixes[1]),
             !.severity = GetHighestSeverity(
                            [k \in 1..Len(duplicates) |-> duplicates[k].severity])]

MergeDuplicates(duplicates) ==
  IF Len(duplicates) = 1 THEN duplicates[1]
  ELSE LET baseIssue == BaseIssue(duplicates)
           sources == {duplicates[k].source : k \in 1..Len(duplicates)}
           mergedSource == IF Cardinality(sources) > 1 THEN "merged"
                           ELSE baseIssue.source
           descriptions == [k \in 1..Len(duplicates) |-> duplicates[k].description]
           fixes == [k \in 1..Len(duplicates) |-> duplicates[k].fix]
       IN [baseIssue EXCEPT
             !.source = mergedSource,
             !.description = Longest(descriptions, 2, descriptions[1]),
             !.fix = Longest(fixes, 2, fixes[1]),
             !.severity = GetHighestSeverity(
                            [k \in 1..Len(duplicates) |-> duplicates[k].severity])]

\* The indices in S, ascending, as a sequence.
RECURSIVE Ascending(_)
Ascending(S) ==
  IF S = {} THEN <<>>
  ELSE LET least == CHOOSE i \in S : \A k \in S : i <= k
       IN <<least>> \o Ascending(S \ {least})

\* A loop in which a finding also joins the cluster when it is a duplicate
\* of a member that joined before it.
RECURSIVE DeduplicateFromLinked(_, _, _, _)
DeduplicateFromLinked(issues, i, processed, deduplicated) ==
  IF i > Len(issues) THEN deduplicated
  ELSE IF i \in processed
  THEN DeduplicateFromLinked(issues, i + 1, processed, deduplicated)
  ELSE LET found == {j \in (i + 1)..Len(issues) :
                       /\ j \notin processed
                       /\ \/ IsDuplicate(issues[i], issues[j])
                          \/ \E m \in (i + 1)..(j - 1) :
                               /\ m \notin processed
                               /\ IsDuplicate(issues[i], issues[m])
                               /\ IsDuplicate(issues[m], issues[j])}
           duplicates == <<i>> \o Ascending(found)
           mergedIssue == MergeDuplicates(
                            [k \in 1..Len(duplicates) |-> issues[duplicates[k]]])
       IN DeduplicateFromLinked(issues, i + 1, processed \cup found \cup {i},
                                Append(deduplicated, mergedIssue))

\* A loop that does not mark the findings it collects as processed.
RECURSIVE DeduplicateFromUnmarked(_, _, _, _)
DeduplicateFromUnmarked(issues, i, processed, deduplicated) ==
  IF i > Len(issues) THEN deduplicated
  ELSE IF i \in processed
  THEN DeduplicateFromUnmarked(issues, i + 1, processed, deduplicated)
  ELSE LET found == {j \in (i + 1)..Len(issues) :
                       j \notin processed /\ IsDuplicate(issues[i], issues[j])}
           duplicates == <<i>> \o Ascending(found)
           mergedIssue == MergeDuplicates(
                            [k \in 1..Len(duplicates) |-> issues[duplicates[k]]])
       IN DeduplicateFromUnmarked(issues, i + 1, processed \cup {i},
                                  Append(deduplicated, mergedIssue))

\* The loop of deduplicate from index i on (1-based here).
RECURSIVE DeduplicateFrom(_, _, _, _)
DeduplicateFrom(issues, i, processed, deduplicated) ==
  IF i > Len(issues) THEN deduplicated
  ELSE IF i \in processed
  THEN DeduplicateFrom(issues, i + 1, processed, deduplicated)
  ELSE LET found == {j \in (i + 1)..Len(issues) :
                       j \notin processed /\ IsDuplicate(issues[i], issues[j])}
           duplicates == <<i>> \o Ascending(found)
           mergedIssue == MergeDuplicates(
                            [k \in 1..Len(duplicates) |-> issues[duplicates[k]]])
       IN DeduplicateFrom(issues, i + 1, processed \cup found \cup {i},
                          Append(deduplicated, mergedIssue))

Deduplicate(issues) ==
  IF Len(issues) = 0 THEN <<>> ELSE DeduplicateFrom(issues, 1, {}, <<>>)

\* The clusters the loop of deduplicate hands to mergeDuplicates, in the
\* order it emits them: duplicates.map(idx => issues[idx]) of each anchor.
RECURSIVE ClustersFrom(_, _, _, _)
ClustersFrom(issues, i, processed, clusters) ==
  IF i > Len(issues) THEN clusters
  ELSE IF i \in processed
  THEN ClustersFrom(issues, i + 1, processed, clusters)
  ELSE LET found == {j \in (i + 1)..Len(issues) :
                       j \notin processed /\ IsDuplicate(issues[i], issues[j])}
           duplicates == <<i>> \o Ascending(found)
       IN ClustersFrom(issues, i + 1, processed \cup found \cup {i},
                       Append(clusters,
                              [k \in 1..Len(duplicates) |-> issues[duplicates[k]]]))

Clusters(issues) ==
  IF Len(issues) = 0 THEN <<>> ELSE ClustersFrom(issues, 1, {}, <<>>)

-----------------------------------------------------------------------------
(* Formatter                                                               *)

\* severityOrder of the Formatter: the rank of a severity
SeverityRank(severity) ==
  CHOOSE k \in 0..4 : SeverityOrder[k + 1] = severity

UpperChar(c) ==
  LET hits == {i \in 1..Len(LowerLetters) : CharAt(LowerLetters, i) = c}
  IN IF hits = {} THEN c ELSE CharAt(UpperLetters, CHOOSE i \in hits : TRUE)

RECURSIVE ToUpperCase(_)
ToUpperCase(s) ==
  IF Len(s) = 0 THEN ""
  ELSE UpperChar(CharAt(s, 1)) \o ToUpperCase(SubSeq(s, 2, Len(s)))

\* generateId: severityPrefix-lineNumber-timestamp-index
GenerateId(issue, index, timestamp) ==
  Id(ToUpperCase(SubSeq(issue.severity, 1, Min2(3, Len(issue.severity)))),
     issue.line, timestamp, index)

\* ensureUniqueIds (index is 0-based in the code)
EnsureUniqueIds(issues, timestamp) ==
  [k \in 1..Len(issues) |->
     IF Trim(issues[k].id.tag) = ""
     THEN [issues[k] EXCEPT !.id = GenerateId(issues[k], k - 1, timestamp)]
     ELSE issues[k]]

\* A comparator that forgets the line number.
CompareSeverityOnly(a, b) == SeverityRank(a.severity) - SeverityRank(b.severity)

\* The comparator of sortIssues.
CompareIssues(a, b) ==
  LET severityDiff == SeverityRank(a.severity) - SeverityRank(b.severity)
  IN IF severityDiff # 0 THEN severityDiff ELSE a.line - b.line

\* Array.prototype.sort is stable: an element goes behind every element
\* that does not compare greater than it.
RECURSIVE InsertSorted(_, _)
InsertSorted(sorted, issue) ==
  IF sorted = <<>> THEN <<issue>>
  ELSE IF CompareIssues(sorted[Len(sorted)], issue) <= 0
  THEN Append(sorted, issue)
  ELSE Append(InsertSorted(SubSeq(sorted, 1, Len(sorted) - 1), issue),
              sorted[Len(sorted)])

RECURSIVE SortFrom(_, _, _)
SortFrom(issues, k, sorted) ==
  IF k > Len(issues) THEN sorted
  ELSE SortFrom(issues, k + 1, InsertSorted(sorted, issues[k]))

SortIssues(issues) == SortFrom(issues, 1, <<>>)

Or(text, default) == IF text = "" THEN default ELSE text

\* validateIssues: a falsy field gets its default (0 || 0 is 0).
ValidateIssues(issues) ==
  [k \in 1..Len(issues) |->
     LET issue == issues[k]
     IN Issue(issue.id, Or(issue.title, "Unknown Issue"),
              Or(issue.description, "No description available"),
              Or(issue.severity, "info"), Or(issue.owaspCategory, "Unknown"),
              issue.line, issue.columnStart, issue.columnEnd,
              Or(issue.fix, "No fix recommendation available"),
              Or(issue.source, "static"), issue.codeSnippet)]

Metadata(timestamp, duration, lang, linesOfCode, analyzersUsed, staticRulesApplied, llmModel) ==
  [timestamp |-> timestamp, duration |-> duration, language |-> lang,
   linesOfCode |-> linesOfCode, analyzersUsed |-> analyzersUsed,
   staticRulesApplied |-> staticRulesApplied, llmModel |-> llmModel]

\* validateMetadata (a falsy number is 0 already; the timestamp is the clock)
ValidateMetadata(metadata) ==
  [metadata EXCEPT !.language = Or(metadata.language, "unknown")]

\* A ScanResult; hasErrors tells whether the optional errors field is set.
ScanResult(success, issues, metadata, hasErrors, errors) ==
  [success |-> success, issues |-> issues, metadata |-> metadata,
   hasErrors |-> hasErrors, errors |-> errors]

\* format: ids, then sort, then validate
Format(issues, metadata, timestamp) ==
  ScanResult(TRUE,
             ValidateIssues(SortIssues(EnsureUniqueIds(issues, timestamp))),
             ValidateMetadata(metadata), FALSE, <<>>)

-----------------------------------------------------------------------------
(* LanguageDetector and CodeParser                                         *)

\* The code argument: null, "" (empty), white space only (blank), a value
\* that is no string (number), or a text: its lines, and what
\* detectFromContent finds in it (content).
Code(kind, lines, content) == [kind |-> kind, lines |-> lines, content |-> content]
Codes ==
  {Code(k, <<>>, "unknown") : k \in {"null", "empty", "blank", "number"}}
    \cup {Code("text", ls, c) : ls \in SeqsUpTo(Lines, MaxLines) \ {<<>>},
                                c \in {"typescript", "unknown"}}

\* The language argument: null/undefined, or a string.
Hint(isNull, text) == [isNull |-> isNull, text |-> text]
Hints ==
  {Hint(TRUE, "")} \cup {Hint(FALSE, t) : t \in {"", " ", ".JS", "python"}}

\* EXTENSION_MAP[normalizedExt]; "" when the map has no such key
ExtensionMap(ext) ==
  CASE ext \in {".js", ".jsx"} -> "javascript"
    [] ext \in {".ts", ".tsx"} -> "typescript"
    [] OTHER -> ""

\* detect: the extension if the map knows it, else detectFromContent
Detect(c, fileExtension) ==
  LET langFromExt == IF fileExtension.isNull \/ fileExtension.text = "" THEN ""
                     ELSE ExtensionMap(ToLowerCase(fileExtension.text))
  IN IF langFromExt # "" THEN langFromExt ELSE c.content

\* A check that lets the unknown language through.
IsSupportedOrUnknown(lang) == lang \in Language

IsSupported(lang) == lang = "javascript" \/ lang = "typescript"

\* CodeParser.parse: the lines of the text (it catches what tokenize throws)
Parse(c) == c.lines

\* tokenize: the tokens of the text, one record per line standing for the
\* tokens found in that line.
Tokenize(c) == [k \in 1..Len(c.lines) |-> [line |-> k, text |-> c.lines[k].text]]

\* A parse that lets what tokenize throws escape.
ParseCodeRethrows(c, throws) ==
  IF throws THEN [threw |-> TRUE, lines |-> <<>>, tokens |-> <<>>]
  ELSE [threw |-> FALSE, lines |-> c.lines, tokens |-> Tokenize(c)]

\* CodeParser.parse with its tokens; throws tells whether tokenize throws on
\* this text.  The catch returns the line split and no token; threw tells
\* whether parse itself throws.
ParseCode(c, throws) ==
  IF throws THEN [threw |-> FALSE, lines |-> c.lines, tokens |-> <<>>]
  ELSE [threw |-> FALSE, lines |-> c.lines, tokens |-> Tokenize(c)]

-----------------------------------------------------------------------------
(* SecurityScanEngine                                                      *)

\* An error result that drops the message.
CreateErrorResultSilent(message, start, clock) ==
  ScanResult(FALSE, <<>>, Metadata(clock, clock - start, "unknown", 0, <<>>, 0, ""),
             FALSE, <<>>)

\* createErrorResult(message, startTime), at clock value clock
CreateErrorResult(message, start, clock) ==
  ScanResult(FALSE, <<>>, Metadata(clock, clock - start, "unknown", 0, <<>>, 0, ""),
             TRUE, <<message>>)

\* A validation that takes white space for code.
ValidateInputNoTrim(c, l) ==
  IF c.kind \in {"null", "empty"} THEN "Invalid input: Code cannot be empty"
  ELSE IF c.kind = "number" THEN "throw"
  ELSE IF l.isNull \/ l.text = "" \/ Len(Trim(l.text)) = 0
  THEN "Invalid input: Language must be specified"
  ELSE ""

\* validateInput: the message of the error result, "" for null (valid), or
\* "throw" when code.trim is no function.
ValidateInput(c, l) ==
  IF c.kind \in {"null", "empty"} THEN "Invalid input: Code cannot be empty"
  ELSE IF c.kind = "number" THEN "throw"
  ELSE IF c.kind = "blank" THEN "Invalid input: Code cannot be empty"
  ELSE IF l.isNull \/ l.text = "" \/ Len(Trim(l.text)) = 0
  THEN "Invalid input: Language must be specified"
  ELSE ""

\* A promise: pending until it settles, fulfilled with a value or rejected
\* with a reason.
NoValue == AnalyzerResult("", <<>>, <<>>)
Promise(status, value, reason) ==
  [status |-> status, value |-> value, reason |-> reason]
Idle == Promise("idle", NoValue, "")
Pending == Promise("pending", NoValue, "")
Fulfilled(value) == Promise("fulfilled", value, "")
Rejected(reason) == Promise("rejected", NoValue, reason)

NoTimer == [armed |-> FALSE, deadline |-> 0]
NoResult == ScanResult(FALSE, <<>>, Metadata(0, 0, "", 0, <<>>, 0, ""), FALSE, <<>>)

\* A join that ends with the first promise to settle.
AnySettled(p1, p2) ==
  p1.status \in {"fulfilled", "rejected"} \/ p2.status \in {"fulfilled", "rejected"}

\* Promise.allSettled: both promises have settled
AllSettled(p1, p2) ==
  p1.status \in {"fulfilled", "rejected"} /\ p2.status \in {"fulfilled", "rejected"}

\* The result pushed for the static task, and for the llm task.
StaticOutcome(staticResult) ==
  IF staticResult.status = "fulfilled" THEN staticResult.value
  ELSE AnalyzerResult("static", <<>>,
                      <<"Static analyzer failed: " \o staticResult.reason>>)

LLMOutcome(llmResult) ==
  IF llmResult.status = "fulfilled" THEN llmResult.value
  ELSE AnalyzerResult("llm", <<>>,
                      <<"LLM analyzer failed: " \o llmResult.reason>>)

\* Results pushed in the order in which the promises settled.
ExecuteAnalyzersAsSettled(staticResult, llmResult) ==
  IF Len(settled) > 0 /\ settled[1] = "llm"
  THEN <<LLMOutcome(llmResult), StaticOutcome(staticResult)>>
  ELSE <<StaticOutcome(staticResult), LLMOutcome(llmResult)>>

\* executeAnalyzers, after the await: the static result first, then the llm
\* result, whichever settled first.
ExecuteAnalyzers(staticResult, llmResult) ==
  <<StaticOutcome(staticResult), LLMOutcome(llmResult)>>

\* runStaticAnalyzer: the promise it returns
RunStaticAnalyzer(lines, throws) ==
  IF throws THEN Rejected("Error: Static analysis failed: boom")
  ELSE Fulfilled(AnalyzerResult("static", StaticAnalyze(lines), <<>>))

\* LLMAnalyzer.analyze: the issues it resolves with.  outcome is what
\* callLLMWithTimeout did: "content" (it returned the message content) or
\* the error it threw; the catch of analyze turns every error into [].
Analyze(outcome, content, lines) ==
  IF outcome = "content"
  THEN MapToVulnerabilityIssues(ParseResponse(content), lines)
  ELSE <<>>

\* runLLMAnalyzer: the promise it returns (analyze never rejects)
RunLLMAnalyzer(outcome, content, lines) ==
  Fulfilled(AnalyzerResult("llm", Analyze(outcome, content, lines), <<>>))

\* A return of scan whose metadata lists the adapters that reported no error.
FinishListsSucceeded(analyzerResults, lang, lines, start, clock) ==
  LET errors == GetErrors(analyzerResults)
      succeeded == SelectSeq(analyzerResults, LAMBDA r : r.errors = <<>>)
      metadata == Metadata(clock, clock - start, lang, Len(lines),
                           [r \in 1..Len(succeeded) |-> succeeded[r].source],
                           GetRuleCount, "gpt-4o-mini")
      scanResult == Format(Deduplicate(Aggregate(analyzerResults)), metadata, clock)
  IN IF Len(errors) > 0
     THEN [scanResult EXCEPT !.hasErrors = TRUE, !.errors = errors]
     ELSE scanResult

\* scan, from the results of executeAnalyzers to the ScanResult
Finish(analyzerResults, lang, lines, start, clock) ==
  LET aggregatedIssues == Aggregate(analyzerResults)
      deduplicatedIssues == Deduplicate(aggregatedIssues)
      errors == GetErrors(analyzerResults)
      metadata == Metadata(clock, clock - start, lang, Len(lines),
                           [r \in 1..Len(analyzerResults) |-> analyzerResults[r].source],
                           GetRuleCount, "gpt-4o-mini")
      scanResult == Format(deduplicatedIssues, metadata, clock)
  IN IF Len(errors) > 0
     THEN [scanResult EXCEPT !.hasErrors = TRUE, !.errors = errors]
     ELSE scanResult

ScanIdle ==
  /\ pc = "idle"
  /\ code = Code("null", <<>>, "unknown")
  /\ language = Hint(TRUE, "")
  /\ startTime = 0
  /\ now = 0
  /\ detected = ""
  /\ parsedCode = <<>>
  /\ staticTask = Idle
  /\ llmTask = Idle
  /\ fetchState = "none"
  /\ timer = NoTimer
  /\ calls = <<>>
  /\ settled = <<>>
  /\ faults = {}
  /\ aggregated = <<>>
  /\ result = NoResult

\* What an invocation of scan holds in its local variables, before it
\* starts; tokenizeThrew, threw and answer record what its parser and its
\* adapters were given to do.
NoLocals ==
  [pc |-> "idle", code |-> Code("null", <<>>, "unknown"),
   language |-> Hint(TRUE, ""), detected |-> "", parsedCode |-> <<>>,
   tokens |-> <<>>, tokenizeThrew |-> FALSE,
   threw |-> FALSE, answer |-> [outcome |-> "", content |-> <<>>],
   staticTask |-> Idle, llmTask |-> Idle, result |-> NoResult]

PairIdle == scans = [i \in 1..2 |-> NoLocals]

\* new RateLimiter(): an empty map; no request handled yet.
LimiterIdle == requests = <<>> /\ responses = <<>>

DedupIdle ==
  x = <<>> /\ once = <<>> /\ twice = <<>> /\ stage = 0 /\ PairIdle /\ LimiterIdle

Init == ScanIdle /\ DedupIdle

\* scan(code, language) up to the await of executeAnalyzers
Scan(c, l) ==
  /\ pc = "idle"
  /\ code' = c
  /\ language' = l
  /\ startTime' = now
  /\ LET validation == ValidateInput(c, l)
         lang == Detect(c, l)
     IN IF validation = "throw"
        THEN /\ result' = CreateErrorResult("Unexpected error: code.trim is not a function",
                                            now, now)
             /\ pc' = "done"
             /\ UNCHANGED <<detected, parsedCode, staticTask, llmTask, calls>>
        ELSE IF validation # ""
        THEN /\ result' = CreateErrorResult(validation, now, now)
             /\ pc' = "done"
             /\ UNCHANGED <<detected, parsedCode, staticTask, llmTask, calls>>
        ELSE IF ~IsSupported(lang)
        THEN /\ result' = CreateErrorResult(
                            "Unsupported language: " \o lang
                              \o ". Only JavaScript and TypeScript are supported.",
                            now, now)
             /\ pc' = "done"
             /\ detected' = lang
             /\ calls' = calls \o <<"detect", "isSupported">>
             /\ UNCHANGED <<parsedCode, staticTask, llmTask>>
        ELSE /\ detected' = lang
             /\ parsedCode' = Parse(c)
             /\ calls' = calls \o <<"detect", "isSupported", "parse">>
             /\ staticTask' = Pending
             /\ llmTask' = Pending
             /\ pc' = "analyzing"
             /\ UNCHANGED result
  /\ UNCHANGED <<now, fetchState, timer, settled, faults, aggregated>>
  /\ UNCHANGED dedupVars

\* runStaticAnalyzer(parsedCode): staticAnalyzer.analyze returns or throws
StaticTask(throws) ==
  /\ pc = "analyzing"
  /\ staticTask.status = "pending"
  /\ staticTask' = RunStaticAnalyzer(parsedCode, throws)
  /\ calls' = Append(calls, "static")
  /\ settled' = Append(settled, "static")
  /\ faults' = IF throws THEN faults \cup {<<"static", "throw">>} ELSE faults
  /\ UNCHANGED <<pc, code, language, startTime, now, detected, parsedCode,
                 llmTask, fetchState, timer, aggregated, result>>
  /\ UNCHANGED dedupVars

\* The llm task ends: analyze returns, runLLMAnalyzer's promise settles.
LLMSettles(outcome, content, fault) ==
  /\ llmTask' = RunLLMAnalyzer(outcome, content, parsedCode)
  /\ settled' = Append(settled, "llm")
  /\ faults' = IF fault = "" THEN faults ELSE faults \cup {<<"llm", fault>>}
  /\ timer' = NoTimer

\* runLLMAnalyzer(parsedCode) up to the await of fetch: the timer is set;
\* without an API key callLLMWithTimeout throws at once.
LLMCall(hasKey) ==
  /\ pc = "analyzing"
  /\ llmTask.status = "pending"
  /\ fetchState = "none"
  /\ IF hasKey
     THEN /\ fetchState' = "inflight"
          /\ timer' = [armed |-> TRUE, deadline |-> now + TimeoutTicks]
          /\ calls' = calls \o <<"llm", "fetch">>
          /\ UNCHANGED <<llmTask, settled, faults>>
     ELSE /\ LLMSettles("OPENAI_API_KEY environment variable is not set", <<>>, "nokey")
          /\ fetchState' = "failed"
          /\ calls' = Append(calls, "llm")
  /\ UNCHANGED <<pc, code, language, startTime, now, detected, parsedCode,
                 staticTask, aggregated, result>>
  /\ UNCHANGED dedupVars

\* fetch resolves with a response: clearTimeout; a response that is not ok
\* throws, else the body is awaited (response.json()).
FetchResolves(ok) ==
  /\ pc = "analyzing"
  /\ fetchState = "inflight"
  /\ IF ok
     THEN /\ fetchState' = "body"
          /\ timer' = NoTimer
          /\ UNCHANGED <<llmTask, settled, faults>>
     ELSE /\ LLMSettles("LLM API error: 500", <<>>, "http")
          /\ fetchState' = "failed"
  /\ UNCHANGED <<pc, code, language, startTime, now, detected, parsedCode,
                 staticTask, calls, aggregated, result>>
  /\ UNCHANGED dedupVars

\* fetch rejects (network failure)
FetchRejects ==
  /\ pc = "analyzing"
  /\ fetchState = "inflight"
  /\ LLMSettles("Network error", <<>>, "network")
  /\ fetchState' = "failed"
  /\ UNCHANGED <<pc, code, language, startTime, now, detected, parsedCode,
                 staticTask, calls, aggregated, result>>
  /\ UNCHANGED dedupVars

\* A timer whose firing sends the request anew instead of ending the call.
TimeoutRetries ==
  /\ pc = "analyzing"
  /\ fetchState = "inflight"
  /\ timer.armed
  /\ now >= timer.deadline
  /\ fetchState' = "none"
  /\ timer' = NoTimer
  /\ UNCHANGED <<pc, code, language, startTime, now, detected, parsedCode,
                 staticTask, llmTask, calls, settled, faults, aggregated, result>>
  /\ UNCHANGED dedupVars

\* The timer fires: controller.abort(), fetch rejects with an AbortError
Timeout ==
  /\ pc = "analyzing"
  /\ fetchState = "inflight"
  /\ timer.armed
  /\ now >= timer.deadline
  /\ LLMSettles("LLM API timeout", <<>>, "timeout")
  /\ fetchState' = "aborted"
  /\ UNCHANGED <<pc, code, language, startTime, now, detected, parsedCode,
                 staticTask, calls, aggregated, result>>
  /\ UNCHANGED dedupVars

\* response.json() resolves: without choices[0].message.content the call
\* throws, else the content is parsed and mapped.
BodyArrives(hasContent, content) ==
  /\ pc = "analyzing"
  /\ fetchState = "body"
  /\ IF hasContent
     THEN LLMSettles("content", content,
                     IF Len(StripFence(content)) = 1
                          /\ StripFence(content)[1].kind = "array"
                     THEN "" ELSE "malformed")
     ELSE LLMSettles("Invalid response format from LLM API", <<>>, "format")
  /\ fetchState' = "done"
  /\ UNCHANGED <<pc, code, language, startTime, now, detected, parsedCode,
                 staticTask, calls, aggregated, result>>
  /\ UNCHANGED dedupVars

\* Time passes while the scan awaits the remote call; a due timer fires
\* before more time passes.
Tick ==
  /\ pc = "analyzing"
  /\ fetchState \in {"inflight", "body"}
  /\ now < MaxClock
  /\ ~(timer.armed /\ now >= timer.deadline)
  /\ now' = now + 1
  /\ UNCHANGED <<pc, code, language, startTime, detected, parsedCode,
                 staticTask, llmTask, fetchState, timer, calls, settled,
                 faults, aggregated, result>>
  /\ UNCHANGED dedupVars

\* The await of Promise.allSettled ends; scan runs to its return.
Join ==
  /\ pc = "analyzing"
  /\ AllSettled(staticTask, llmTask)
  /\ LET analyzerResults == ExecuteAnalyzers(staticTask, llmTask)
     IN /\ aggregated' = Aggregate(analyzerResults)
        /\ result' = Finish(analyzerResults, detected, parsedCode, startTime, now)
  /\ pc' = "done"
  /\ UNCHANGED <<code, language, startTime, now, detected, parsedCode,
                 staticTask, llmTask, fetchState, timer, calls, settled, faults>>
  /\ UNCHANGED dedupVars

Next ==
  \/ \E c \in Codes, l \in Hints : Scan(c, l)
  \/ \E throws \in BOOLEAN : StaticTask(throws)
  \/ \E hasKey \in BOOLEAN : LLMCall(hasKey)
  \/ \E ok \in BOOLEAN : FetchResolves(ok)
  \/ FetchRejects
  \/ Timeout
  \/ \E content \in Contents : BodyArrives(TRUE, content)
  \/ BodyArrives(FALSE, <<>>)
  \/ Tick
  \/ Join

Spec == Init /\ [][Next]_vars

\* What the runtime is bound to do: a started task runs, time passes, a due
\* timer fires, and a join whose promises have settled resumes.  The remote
\* service is bound to nothing: it may never answer, and never send the body.
\* Join is enabled exactly in these states (it always changes pc).
JoinReady == pc = "analyzing" /\ AllSettled(staticTask, llmTask)

\* The last conjunct is WF_vars(Join), with ENABLED <<Join>>_vars written
\* as JoinReady.
Fairness ==
  /\ WF_vars(\E throws \in BOOLEAN : StaticTask(throws))
  /\ WF_vars(\E hasKey \in BOOLEAN : LLMCall(hasKey))
  /\ WF_vars(Tick)
  /\ WF_vars(Timeout)
  /\ ([]<>(~JoinReady) \/ []<><<Join>>_vars)

SpecLive == Spec /\ Fairness

-----------------------------------------------------------------------------
(* Deduplicator.deduplicate on its own, run twice over a list of issues    *)

Given(n) == Id("given", 0, 0, n)

\* The issues the lists are drawn from.
Universe ==
  { Issue(Given(1), "SQLi", "static note", "high", "A03:2021 - Injection",
          10, 2, 6, "use parameters, never concat", "static", "q"),
    Issue(Given(2), "sqli ", "a longer note from the model", "critical",
          "A03:2021", 11, 0, 9, "bind", "llm", "r"),
    Issue(Given(3), "SQLx", "third", "medium", "A03:2021 - Injection",
          12, 1, 4, "escape", "static", "s"),
    Issue(Given(4), "SQLi", "fourth", "low", "A03:2021 Injection",
          13, 0, 3, "check", "llm", "t"),
    Issue(Given(5), "XSS", "html", "high", "A03:2021 - Injection",
          10, 0, 5, "encode", "static", "u"),
    Issue(Given(6), "SQLi", "auth", "info", "A07:2021",
          10, 0, 5, "rotate", "llm", "v"),
    Issue(Given(7), "SQLi", "misc one", "low", " Misc",
          11, 0, 5, "a", "static", "w"),
    Issue(Given(8), "SQLi", "misc two!", "medium", "misc ",
          12, 0, 5, "bb", "static", ""),
    Issue(Given(9), "SQLi", "static memo", "medium", "A03:2021",
          11, 3, 7, "use parameters; never concat", "static", "y") }

InitDedup ==
  /\ ScanIdle
  /\ x \in SeqsUpTo(Universe, MaxLen)
  /\ once = <<>>
  /\ twice = <<>>
  /\ stage = 0
  /\ PairIdle
  /\ LimiterIdle

\* deduplicate(x)
FirstPass ==
  /\ stage = 0
  /\ once' = Deduplicate(x)
  /\ stage' = 1
  /\ UNCHANGED <<x, twice, scans, requests, responses>>
  /\ UNCHANGED scanVars

\* deduplicate(deduplicate(x))
SecondPass ==
  /\ stage = 1
  /\ twice' = Deduplicate(once)
  /\ stage' = 2
  /\ UNCHANGED <<x, once, scans, requests, responses>>
  /\ UNCHANGED scanVars

NextDedup == FirstPass \/ SecondPass

SpecDedup == InitDedup /\ [][NextDedup]_vars

-----------------------------------------------------------------------------
(* ResultAggregator.aggregate on its own, over two AnalyzerResults         *)

\* The issues the results are drawn from: one without a source, one of each
\* adapter.
Reported ==
  { Issue(Given(1), "SQLi", "a", "high", "A03:2021", 10, 0, 4, "f", "", "q"),
    Issue(Given(2), "XSS", "b", "low", "A03:2021", 4, 1, 3, "g", "static", "r"),
    Issue(Given(3), "Hash", "c", "info", "A02:2021", 7, 2, 2, "h", "llm", "s") }

AnalyzerResults ==
  {AnalyzerResult(source, issues, <<>>) :
     source \in {"static", "llm"}, issues \in SeqsUpTo(Reported, MaxFindings)}

InitAggregate ==
  /\ ScanIdle
  /\ x \in {<<first, second>> : first \in AnalyzerResults, second \in AnalyzerResults}
  /\ once = <<>>
  /\ twice = <<>>
  /\ stage = 0
  /\ PairIdle
  /\ LimiterIdle

\* aggregate(x)
AggregatePass ==
  /\ stage = 0
  /\ once' = Aggregate(x)
  /\ stage' = 1
  /\ UNCHANGED <<x, twice, scans, requests, responses>>
  /\ UNCHANGED scanVars

NextAggregate == AggregatePass

SpecAggregate == InitAggregate /\ [][NextAggregate]_vars

-----------------------------------------------------------------------------
(* Formatter.format on its own, over a list of issues                      *)

\* The issues the lists are drawn from: without an id ('' and ' '), and with
\* one, two of them with the same.
Unformatted ==
  { Issue(NoId, "Weak", "a", "medium", "A02:2021", 5, 0, 4, "f", "static", "q"),
    Issue(Id(" ", 0, 0, 0), "Leak", "b", "critical", "A01:2021", 5, 1, 3, "g",
          "llm", "r"),
    Issue(Given(1), "SQLi", "c", "high", "A03:2021", 3, 2, 2, "h", "static", "s"),
    Issue(Given(1), "XSS", "d", "low", "A03:2021", 8, 0, 1, "i", "llm", "t"),
    Issue(Given(2), "Hash", "e", "high", "A02:2021", 3, 0, 2, "j", "merged", "u") }

InitFormat ==
  /\ ScanIdle
  /\ x \in SeqsUpTo(Unformatted, MaxLen)
  /\ once = <<>>
  /\ twice = <<>>
  /\ stage = 0
  /\ PairIdle
  /\ LimiterIdle

\* format(x, metadata).issues, at clock value now
FormatPass ==
  /\ stage = 0
  /\ once' = Format(x, Metadata(now, 0, "javascript", 1, <<"static", "llm">>,
                                GetRuleCount, "gpt-4o-mini"), now).issues
  /\ stage' = 1
  /\ UNCHANGED <<x, twice, scans, requests, responses>>
  /\ UNCHANGED scanVars

SpecFormat == InitFormat /\ [][FormatPass]_vars

-----------------------------------------------------------------------------
(* Two invocations of scan on one SecurityScanEngine, interleaved at their *)
(* awaits.  The clock stands still; the remote call is one step.           *)

\* The arguments of the two invocations, each with whether tokenize throws
\* on the code, and what the remote call may do.
PairInputs ==
  { <<Code("empty", <<>>, "unknown"), Hint(FALSE, ".JS"), FALSE>>,
    <<Code("text", <<SqlLine>>, "unknown"), Hint(FALSE, ".JS"), FALSE>>,
    <<Code("text", <<SqlLine, CleanLine>>, "unknown"), Hint(FALSE, ".JS"), TRUE>>,
    <<Code("text", <<HashLine, SqlLine>>, "typescript"), Hint(FALSE, "python"), FALSE>>,
    <<Code("text", <<CleanLine>>, "unknown"), Hint(FALSE, "python"), FALSE>> }

Answers ==
  { [outcome |-> "LLM API timeout", content |-> <<>>],
    [outcome |-> "content", content |-> <<Json("array", <<VulnSql>>)>>],
    [outcome |-> "content", content |-> <<Json("array", <<VulnNear, VulnHash>>)>>] }

\* What scan returns before it reaches its adapters; NoResult if it goes on.
Refusal(c, l) ==
  LET validation == ValidateInput(c, l)
      lang == Detect(c, l)
  IN IF validation = "throw"
     THEN CreateErrorResult("Unexpected error: code.trim is not a function", now, now)
     ELSE IF validation # "" THEN CreateErrorResult(validation, now, now)
     ELSE IF ~IsSupported(lang)
     THEN CreateErrorResult("Unsupported language: " \o lang
                              \o ". Only JavaScript and TypeScript are supported.",
                            now, now)
     ELSE NoResult

\* Local variables kept in one place, where the other invocation overwrites
\* them once it has started.
LocalsShared(i) == IF scans[3 - i].pc # "idle" THEN scans[3 - i] ELSE scans[i]

\* parsedCode, detectedLanguage and analyzerResults are locals of the
\* invocation: invocation i reads its own.
Locals(i) == scans[i]

\* scan(code, language) of invocation i, up to the await; a parse that
\* throws is caught by scan and ends it with an error result.
PairStart(i, input) ==
  /\ scans[i].pc = "idle"
  /\ LET c == input[1]
         l == input[2]
         parsed == ParseCode(c, input[3])
     IN scans' = [scans EXCEPT ![i] =
          IF Refusal(c, l) # NoResult
          THEN [@ EXCEPT !.pc = "done", !.code = c, !.language = l,
                         !.result = Refusal(c, l)]
          ELSE IF parsed.threw
          THEN [@ EXCEPT !.pc = "done", !.code = c, !.language = l,
                         !.detected = Detect(c, l), !.tokenizeThrew = input[3],
                         !.result = CreateErrorResult(
                                      "Failed to parse code: tokenize failed",
                                      now, now)]
          ELSE [@ EXCEPT !.pc = "analyzing", !.code = c, !.language = l,
                         !.detected = Detect(c, l), !.parsedCode = parsed.lines,
                         !.tokens = parsed.tokens, !.tokenizeThrew = input[3],
                         !.staticTask = Pending, !.llmTask = Pending]]
  /\ UNCHANGED <<x, once, twice, stage, requests, responses>>
  /\ UNCHANGED scanVars

\* runStaticAnalyzer(parsedCode) of invocation i
PairStatic(i, throws) ==
  /\ scans[i].pc = "analyzing"
  /\ scans[i].staticTask.status = "pending"
  /\ scans' = [scans EXCEPT ![i] =
       [@ EXCEPT !.threw = throws,
                 !.staticTask = RunStaticAnalyzer(Locals(i).parsedCode, throws)]]
  /\ UNCHANGED <<x, once, twice, stage, requests, responses>>
  /\ UNCHANGED scanVars

\* runLLMAnalyzer(parsedCode) of invocation i, the remote call included
PairLLM(i, answer) ==
  /\ scans[i].pc = "analyzing"
  /\ scans[i].llmTask.status = "pending"
  /\ scans' = [scans EXCEPT ![i] =
       [@ EXCEPT !.answer = answer,
                 !.llmTask = RunLLMAnalyzer(answer.outcome, answer.content,
                                            Locals(i).parsedCode)]]
  /\ UNCHANGED <<x, once, twice, stage, requests, responses>>
  /\ UNCHANGED scanVars

\* Invocation i resumes after Promise.allSettled and runs to its return
PairJoin(i) ==
  /\ scans[i].pc = "analyzing"
  /\ AllSettled(scans[i].staticTask, scans[i].llmTask)
  /\ scans' = [scans EXCEPT ![i] =
       [@ EXCEPT !.pc = "done",
                 !.result = Finish(ExecuteAnalyzers(Locals(i).staticTask,
                                                    Locals(i).llmTask),
                                   Locals(i).detected, Locals(i).parsedCode,
                                   now, now)]]
  /\ UNCHANGED <<x, once, twice, stage, requests, responses>>
  /\ UNCHANGED scanVars

InitPair == ScanIdle /\ DedupIdle

NextPair ==
  \E i \in 1..2 :
    \/ \E input \in PairInputs : PairStart(i, input)
    \/ \E throws \in BOOLEAN : PairStatic(i, throws)
    \/ \E answer \in Answers : PairLLM(i, answer)
    \/ PairJoin(i)

SpecPair == InitPair /\ [][NextPair]_vars

-----------------------------------------------------------------------------
(* LLMAnalyzer.parseResponse and mapToVulnerabilityIssues on their own,    *)
(* over the content of a response and the lines of the code scanned        *)

InitParse ==
  /\ ScanIdle
  /\ x \in {[content |-> content, lines |-> lines] :
              content \in Contents, lines \in SeqsUpTo(Lines, MaxLines) \ {<<>>}}
  /\ once = <<>>
  /\ twice = <<>>
  /\ stage = 0
  /\ PairIdle
  /\ LimiterIdle

\* parseResponse(content)
ParsePass ==
  /\ stage = 0
  /\ once' = ParseResponse(x.content)
  /\ stage' = 1
  /\ UNCHANGED <<x, twice, scans, requests, responses>>
  /\ UNCHANGED scanVars

\* mapToVulnerabilityIssues(vulnerabilities, parsedCode)
MapPass ==
  /\ stage = 1
  /\ twice' = MapToVulnerabilityIssues(once, x.lines)
  /\ stage' = 2
  /\ UNCHANGED <<x, once, scans, requests, responses>>
  /\ UNCHANGED scanVars

NextParse == ParsePass \/ MapPass

SpecParse == InitParse /\ [][NextParse]_vars

-----------------------------------------------------------------------------
(* RateLimiter and ApiServer.handleScanRequest.  The clock is now; the map *)
(* requests has the identifiers with a stored entry as its domain.         *)

\* clientIp of the requests
Clients == {"10.0.0.1", "10.0.0.2"}

\* A RateLimitEntry.
Entry(count, resetTime) == [count |-> count, resetTime |-> resetTime]

\* An isAllowed that counts one request more before it refuses.
IsAllowedOneMore(identifier) ==
  IF identifier \notin DOMAIN requests \/ now > requests[identifier].resetTime
  THEN [allowed |-> TRUE,
        requests |-> [k \in DOMAIN requests \cup {identifier} |->
                        IF k = identifier THEN Entry(1, now + WindowMs)
                        ELSE requests[k]]]
  ELSE IF requests[identifier].count <= MaxRequests
  THEN [allowed |-> TRUE,
        requests |-> [requests EXCEPT ![identifier].count = @ + 1]]
  ELSE [allowed |-> FALSE, requests |-> requests]

\* isAllowed(identifier): what it returns, and the map it leaves.
IsAllowed(identifier) ==
  IF identifier \notin DOMAIN requests \/ now > requests[identifier].resetTime
  THEN [allowed |-> TRUE,
        requests |-> [k \in DOMAIN requests \cup {identifier} |->
                        IF k = identifier THEN Entry(1, now + WindowMs)
                        ELSE requests[k]]]
  ELSE IF requests[identifier].count < MaxRequests
  THEN [allowed |-> TRUE,
        requests |-> [requests EXCEPT ![identifier].count = @ + 1]]
  ELSE [allowed |-> FALSE, requests |-> requests]

\* getRemaining(identifier)
GetRemaining(identifier) ==
  IF identifier \notin DOMAIN requests \/ now > requests[identifier].resetTime
  THEN MaxRequests
  ELSE Max2(0, MaxRequests - requests[identifier].count)

\* A response of handleScanRequest: the client, the clock value at which the
\* request was taken up, the status code and the X-RateLimit-Remaining
\* header (-1: not set).
Response(client, at, status, remaining) ==
  [client |-> client, at |-> at, status |-> status, remaining |-> remaining]

\* handleScanRequest: the rate limit first; a request that is let through is
\* answered 400 if its body is not a valid scan request, else 200 with the
\* ScanResult.
HandleScanRequest(clientIp, valid) ==
  /\ Len(responses) < MaxCalls
  /\ LET outcome == IsAllowed(clientIp)
     IN /\ requests' = outcome.requests
        /\ responses' =
             Append(responses,
                    IF ~outcome.allowed
                    THEN Response(clientIp, now, 429, GetRemaining(clientIp))
                    ELSE Response(clientIp, now, IF valid THEN 200 ELSE 400, -1))
  /\ UNCHANGED <<x, once, twice, stage, scans>>
  /\ UNCHANGED scanVars

\* cleanup, run by setInterval every 60000 ms: expired entries are deleted.
Cleanup ==
  /\ now >= WindowMs
  /\ requests' = [k \in {id \in DOMAIN requests : ~(now > requests[id].resetTime)} |->
                    requests[k]]
  /\ UNCHANGED <<pc, code, language, startTime, now, detected, parsedCode,
                 staticTask, llmTask, fetchState, timer, calls, settled, faults,
                 aggregated, result>>
  /\ UNCHANGED <<x, once, twice, stage, scans, responses>>

\* Time passes between two requests.
ServerTick ==
  /\ now < MaxTime
  /\ now' = now + 1
  /\ UNCHANGED <<pc, code, language, startTime, detected, parsedCode,
                 staticTask, llmTask, fetchState, timer, calls, settled, faults,
                 aggregated, result>>
  /\ UNCHANGED dedupVars

NextLimiter ==
  \/ \E clientIp \in Clients, valid \in BOOLEAN : HandleScanRequest(clientIp, valid)
  \/ Cleanup
  \/ ServerTick

SpecLimiter == Init /\ [][NextLimiter]_vars

-----------------------------------------------------------------------------
(* Properties                                                              *)

\* sub occurs in s
Contains(s, sub) ==
  \E i \in 1..(Len(s) - Len(sub) + 1) : SubSeq(s, i, i + Len(sub) - 1) = sub

Succeeded == pc = "done" /\ result.success

\* The issues a task's promise carries
TaskIssues(p) == IF p.status = "fulfilled" THEN p.value.issues ELSE <<>>

\* C1: deduplication is idempotent: deduplicate(deduplicate(x)) returns
\* exactly deduplicate(x), for every list x.
C1_DedupIdempotent == stage = 2 => twice = once

\* C2: the issues of every successful scan outcome are sorted by severity
\* rank ascending and, within one severity, by line ascending, on the values
\* emitted, whatever the order in which the adapters completed.
C2_IssuesSorted ==
  Succeeded =>
    \A k \in 1..(Len(result.issues) - 1) :
      LET a == result.issues[k]
          b == result.issues[k + 1]
      IN \/ SeverityRank(a.severity) < SeverityRank(b.severity)
         \/ /\ SeverityRank(a.severity) = SeverityRank(b.severity)
            /\ a.line <= b.line

\* A successful scan whose deduplicated issues were out of order before the
\* Formatter sorted them: two severities, and two lines within one severity.
C2_Witness ==
  /\ Succeeded
  /\ Deduplicate(aggregated) # SortIssues(Deduplicate(aggregated))
  /\ \E k \in 1..(Len(result.issues) - 1) :
       /\ result.issues[k].severity = result.issues[k + 1].severity
       /\ result.issues[k].line < result.issues[k + 1].line
  /\ \E k \in 1..(Len(result.issues) - 1) :
       result.issues[k].severity # result.issues[k + 1].severity

\* The scan was refused for its input, or for its language, or failed with
\* an unexpected error at the top level.
FatalCause ==
  \/ ValidateInput(code, language) # ""
  \/ ~IsSupported(Detect(code, language))

\* C3: success is false only for input, unsupported-language or top-level
\* system errors; whatever adapters failed, the scan succeeds and its errors
\* list is populated.
C3_FailurePolicy ==
  pc = "done" =>
    /\ ~result.success => FatalCause
    /\ faults # {} => /\ result.success
                      /\ result.hasErrors
                      /\ Len(result.errors) > 0

\* C4: when the remote call of the contextual analyzer times out or fails
\* and the source text holds one pattern-detectable vulnerability, the scan
\* succeeds, its issues are exactly the pattern detector's finding, and
\* errors has an entry that names llm.
C4_TimeoutKeepsStatic ==
  ( /\ pc = "done"
    /\ faults \cap {<<"llm", "timeout">>, <<"llm", "network">>, <<"llm", "http">>} # {}
    /\ staticTask.status = "fulfilled"
    /\ Len(StaticAnalyze(parsedCode)) = 1 )
  => /\ result.success
     /\ result.issues = StaticAnalyze(parsedCode)
     /\ result.hasErrors
     /\ \E k \in 1..Len(result.errors) : Contains(result.errors[k], "llm")

\* The AnalyzerResult of an adapter, as executeAnalyzers hands it on
OutcomeOf(tag) ==
  LET rs == ExecuteAnalyzers(staticTask, llmTask)
  IN IF rs[1].source = tag THEN rs[1] ELSE rs[2]

\* C5: a failure in one adapter task becomes an outcome with that adapter's
\* tag, no findings and a non-empty diagnostic, and the other task runs to
\* completion and its findings reach the aggregator.
C5_FaultIsolation ==
  Succeeded =>
    \A f \in faults :
      LET tag == f[1]
          sibling == IF tag = "static" THEN "llm" ELSE "static"
      IN /\ OutcomeOf(tag).source = tag
         /\ OutcomeOf(tag).issues = <<>>
         /\ Len(OutcomeOf(tag).errors) > 0
         /\ (IF sibling = "static" THEN staticTask ELSE llmTask).status
              \in {"fulfilled", "rejected"}
         /\ \A k \in 1..Len(OutcomeOf(sibling).issues) :
              \E m \in 1..Len(aggregated) :
                aggregated[m] = OutcomeOf(sibling).issues[k]

\* C6: aggregation starts, and the outcome is produced, only after both
\* adapter tasks have settled, whichever settles first.
C6_JoinAfterBoth ==
  (Succeeded \/ aggregated # <<>>) =>
    /\ staticTask.status \in {"fulfilled", "rejected"}
    /\ llmTask.status \in {"fulfilled", "rejected"}
    /\ fetchState \notin {"inflight", "body"}
    /\ Len(settled) = 2

\* A scan that ended with findings from both adapters, the llm task having
\* settled before the static one.
C6_Witness ==
  /\ Succeeded
  /\ settled = <<"llm", "static">>
  /\ TaskIssues(staticTask) # <<>>
  /\ TaskIssues(llmTask) # <<>>

\* C7: the final order does not depend on completion timing: the aggregated
\* list is the pattern findings followed by the contextual findings, and the
\* issues are what deduplication and formatting make of that list.
C7_OrderIndependentOfTiming ==
  Succeeded =>
    LET fixed == TaskIssues(staticTask) \o TaskIssues(llmTask)
    IN /\ aggregated = fixed
       /\ result.issues
            = ValidateIssues(SortIssues(EnsureUniqueIds(Deduplicate(fixed), now)))

\* The llm task settled first, both adapters found something, and the
\* outcome lists a pattern finding before a contextual one.
C7_Witness ==
  /\ Succeeded
  /\ settled = <<"llm", "static">>
  /\ Len(aggregated) >= 2
  /\ aggregated[1].source = "static"
  /\ aggregated[Len(aggregated)].source = "llm"
  /\ Len(result.issues) >= 2

InvalidInput ==
  \/ code.kind \in {"null", "empty", "blank"}
  \/ language.isNull
  \/ Trim(language.text) = ""

\* C8: on empty, blank or null code, or an absent or blank language, scan
\* returns a failed outcome with no findings, zero duration, no adapters and
\* an error message (naming "empty" for empty code), and nothing has been
\* invoked: no language resolver, no parser, no adapter.
C8_FailFastOnInvalidInput ==
  (pc = "done" /\ InvalidInput) =>
    /\ ~result.success
    /\ result.issues = <<>>
    /\ result.metadata.duration = 0
    /\ result.metadata.analyzersUsed = <<>>
    /\ result.hasErrors
    /\ Len(result.errors) = 1
    /\ code.kind \in {"null", "empty", "blank"} => Contains(result.errors[1], "empty")
    /\ calls = <<>>

\* A scan of blank code with a usable language hint has returned.
C8_Witness ==
  /\ pc = "done"
  /\ code.kind = "blank"
  /\ ~language.isNull
  /\ language.text = ".JS"
  /\ ~result.success

\* C9: when the resolved language is unsupported, scan returns a failed
\* outcome with an Unsupported-language error and no findings, and neither
\* adapter nor the remote service has been invoked.
C9_UnsupportedBeforeAdapters ==
  ( /\ pc = "done"
    /\ ValidateInput(code, language) = ""
    /\ Detect(code, language) \notin {"javascript", "typescript"} )
  => /\ ~result.success
     /\ result.issues = <<>>
     /\ Len(result.errors) = 1
     /\ Contains(result.errors[1], "Unsupported language")
     /\ \A k \in 1..Len(calls) : calls[k] \notin {"static", "llm", "fetch"}
     /\ staticTask = Idle
     /\ llmTask = Idle
     /\ fetchState = "none"

\* A text whose language resolves to unknown has been refused, the language
\* resolver having run.
C9_Witness ==
  /\ pc = "done"
  /\ code.kind = "text"
  /\ detected = "unknown"
  /\ calls = <<"detect", "isSupported">>
  /\ ~result.success

\* C10: every issue of a scan outcome has line >= 1, columnEnd >=
\* columnStart, a non-empty id and a severity of the five-value enum.
C10_EmittedIssuesWellFormed ==
  pc = "done" =>
    \A k \in 1..Len(result.issues) :
      /\ result.issues[k].line >= 1
      /\ result.issues[k].columnEnd >= result.issues[k].columnStart
      /\ result.issues[k].id.tag # ""
      /\ result.issues[k].severity \in SeverityLevel

-----------------------------------------------------------------------------
(* Properties of the merge of a cluster                                    *)

\* Critical is the highest severity.
Height(severity) ==
  CASE severity = "critical" -> 5
    [] severity = "high" -> 4
    [] severity = "medium" -> 3
    [] severity = "low" -> 2
    [] OTHER -> 1

\* The earliest of the longest texts of a list.
FirstLongest(texts) ==
  texts[CHOOSE i \in 1..Len(texts) :
          /\ \A j \in 1..Len(texts) : Len(texts[j]) <= Len(texts[i])
          /\ \A j \in 1..(i - 1) : Len(texts[j]) < Len(texts[i])]

\* The provenance tags of a cluster's members.
Tags(cluster) == {cluster[m].source : m \in 1..Len(cluster)}

\* output holds one issue per cluster of input, and the issue of every
\* cluster of two or more has the cluster's highest severity and the earliest
\* of its longest descriptions and of its longest fixes.
MergeSelects(input, output) ==
  LET cs == Clusters(input)
  IN /\ Len(output) = Len(cs)
     /\ \A k \in 1..Len(cs) :
          Len(cs[k]) > 1 =>
            /\ \E m \in 1..Len(cs[k]) : cs[k][m].severity = output[k].severity
            /\ \A m \in 1..Len(cs[k]) :
                  Height(cs[k][m].severity) <= Height(output[k].severity)
            /\ output[k].description
                 = FirstLongest([m \in 1..Len(cs[k]) |-> cs[k][m].description])
            /\ output[k].fix
                 = FirstLongest([m \in 1..Len(cs[k]) |-> cs[k][m].fix])

\* C11: for every cluster of two or more members, the merged issue has the
\* highest severity present among the members, and as description and fix
\* the longest among the members, the earliest member winning a tie of
\* lengths; checked on both passes of deduplicate.
C11_MergeSelectsMaxima ==
  /\ stage >= 1 => MergeSelects(x, once)
  /\ stage = 2 => MergeSelects(once, twice)

\* A cluster of two members of different severities whose descriptions are
\* different texts of one length, and whose fixes too, has been merged.
C11_Witness ==
  /\ stage >= 1
  /\ Len(x) = 2
  /\ Len(once) = 1
  /\ x[1].severity # x[2].severity
  /\ x[1].description # x[2].description
  /\ Len(x[1].description) = Len(x[2].description)
  /\ x[1].fix # x[2].fix
  /\ Len(x[1].fix) = Len(x[2].fix)

\* Two issues with equal normalized category and title similarity >= 0.7
Alike(a, b) ==
  /\ NormalizeOwaspCategory(a.owaspCategory) = NormalizeOwaspCategory(b.owaspCategory)
  /\ FracGeq(CalculateSimilarity(a.title, b.title), <<7, 10>>)

\* deduplicate has run over two alike issues at the lines l1 and l2
PairAt(l1, l2) ==
  /\ stage >= 1
  /\ Len(x) = 2
  /\ {x[1].line, x[2].line} = {l1, l2}
  /\ Alike(x[1], x[2])

\* C12 (as stated): two alike issues at lines 10 and 11 are merged into one
\* issue with provenance merged; two alike issues at lines 10 and 13 both
\* remain in the output.
C12_AsStated ==
  /\ PairAt(10, 11) => Len(once) = 1 /\ once[1].source = "merged"
  /\ PairAt(10, 13) => once = x

\* C12: two alike issues at lines 10 and 11 are merged into one issue, whose
\* provenance is merged when the two carry different tags and their shared
\* tag otherwise; two alike issues at lines 10 and 13 both remain in the
\* output, unchanged and in their order.
C12_LineTolerance ==
  /\ PairAt(10, 11) =>
       /\ Len(once) = 1
       /\ once[1].source = IF x[1].source # x[2].source THEN "merged"
                           ELSE x[1].source
  /\ PairAt(10, 13) => once = x

\* Two alike static issues at lines 10 and 11 have been merged into one.
C12_Witness ==
  /\ PairAt(10, 11)
  /\ x[1].source = "static"
  /\ x[2].source = "static"
  /\ Len(once) = 1

\* Two alike issues at lines 10 and 13 have been through deduplicate.
C12_WitnessFar == PairAt(10, 13) /\ Len(once) = 2

\* The issue of every cluster is tagged merged when the cluster holds more
\* than one tag, and with the cluster's only tag otherwise.
MergeTags(input, output) ==
  LET cs == Clusters(input)
  IN /\ Len(output) = Len(cs)
     /\ \A k \in 1..Len(cs) :
          IF Cardinality(Tags(cs[k])) > 1
          THEN output[k].source = "merged"
          ELSE output[k].source \in Tags(cs[k])

\* C13: the issue merged from a cluster is tagged merged if and only if the
\* cluster holds more than one distinct original tag (static, llm); a
\* cluster whose members carry one tag keeps that tag, on both passes.
C13_MergedIffMixed ==
  /\ stage >= 1 =>
       /\ MergeTags(x, once)
       /\ \A k \in 1..Len(once) :
             once[k].source = "merged" <=> Cardinality(Tags(Clusters(x)[k])) > 1
  /\ stage = 2 => MergeTags(once, twice)

\* A cluster of two static issues has been merged, and it is still static.
C13_Witness ==
  /\ stage >= 1
  /\ Len(x) = 2
  /\ Tags(x) = {"static"}
  /\ Len(once) = 1
  /\ once[1].source = "static"

\* The member of a cluster the merged issue is built on: the first member
\* tagged llm, and the first member when there is none.
Preferred(cluster) ==
  LET llm == {m \in 1..Len(cluster) : cluster[m].source = "llm"}
  IN IF llm = {} THEN cluster[1]
     ELSE cluster[CHOOSE m \in llm : \A n \in llm : m <= n]

\* The issue of every cluster of two or more has the base record of the
\* preferred member.
MergeBase(input, output) ==
  LET cs == Clusters(input)
  IN /\ Len(output) = Len(cs)
     /\ \A k \in 1..Len(cs) :
          Len(cs[k]) > 1 =>
            LET base == Preferred(cs[k])
            IN /\ output[k].id = base.id
               /\ output[k].title = base.title
               /\ output[k].line = base.line
               /\ output[k].columnStart = base.columnStart
               /\ output[k].columnEnd = base.columnEnd
               /\ output[k].codeSnippet = base.codeSnippet
               /\ output[k].owaspCategory = base.owaspCategory

\* C14: for every cluster of two or more members, the merged issue takes
\* id, title, line, columns, snippet and category from the first member
\* tagged llm, and from the first member (the anchor) when no member is
\* tagged llm; checked on both passes.
C14_BaseRecord ==
  /\ stage >= 1 => MergeBase(x, once)
  /\ stage = 2 => MergeBase(once, twice)

\* A cluster whose anchor is static and whose second member is tagged llm
\* has been merged on the record of the second member.
C14_Witness ==
  /\ stage >= 1
  /\ Len(x) = 2
  /\ x[1].source = "static"
  /\ x[2].source = "llm"
  /\ Len(once) = 1
  /\ once[1].id = x[2].id
  /\ once[1].id # x[1].id

-----------------------------------------------------------------------------
(* Properties of the scan: timeout, top-level failures, metadata           *)

\* The remote call has been under way for longer than the timeout.
Overdue ==
  /\ pc = "analyzing"
  /\ fetchState \in {"inflight", "body"}
  /\ now > startTime + TimeoutTicks

\* analyze has returned no issues after a timeout of the remote call.
TimedOut ==
  /\ llmTask.status = "fulfilled"
  /\ llmTask.value.issues = <<>>
  /\ <<"llm", "timeout">> \in faults

\* C15: whenever the remote call is still incomplete after the timeout, it
\* is cancelled and analyze eventually returns an empty list after a
\* timeout; and every scan that reached its analyzers eventually returns.
C15_HardTimeout ==
  /\ Overdue ~> TimedOut
  /\ (pc = "analyzing") ~> (pc = "done")

\* C15, the part that holds: while fetch itself is pending, the timer is
\* armed, and the call does not stay pending past its deadline.
C15_FetchIsTimed ==
  /\ [](fetchState = "inflight" => timer.armed /\ now <= timer.deadline)
  /\ (fetchState = "inflight") ~> (fetchState # "inflight")

\* Something in the try block of scan has thrown: validateInput, on a code
\* that is no string (code.trim is not a function).
Unexpected == pc = "done" /\ ValidateInput(code, language) = "throw"

\* C16: an unexpected failure thrown in the scan flow is caught by the catch
\* of scan: the scan has returned a ScanResult, a failure with no findings
\* and one non-empty diagnostic that names the unexpected error.
C16_TopLevelCatch ==
  /\ Unexpected =>
       /\ ~result.success
       /\ result.issues = <<>>
       /\ result.hasErrors
       /\ Len(result.errors) = 1
       /\ Contains(result.errors[1], "Unexpected error")
  /\ pc = "done" => result # NoResult

\* A scan of a code that is no string, with a usable language, has returned.
C16_Witness ==
  /\ pc = "done"
  /\ code.kind = "number"
  /\ ~language.isNull
  /\ language.text = ".JS"
  /\ ~result.success
  /\ calls = <<>>

-----------------------------------------------------------------------------
(* Properties of ResultAggregator.aggregate                                *)

\* C17: aggregate returns the issues of the first result followed by those
\* of the second, every one of them and in their order; an issue without a
\* source has the source of its result, and nothing else is changed.
C17_AggregateConcatenates ==
  stage = 1 =>
    LET first == x[1].issues
        second == x[2].issues
    IN /\ Len(once) = Len(first) + Len(second)
       /\ \A k \in 1..Len(once) :
            LET given == IF k <= Len(first) THEN first[k] ELSE second[k - Len(first)]
                origin == IF k <= Len(first) THEN x[1].source ELSE x[2].source
            IN once[k] = [given EXCEPT !.source = IF given.source = "" THEN origin
                                                  ELSE given.source]

\* The llm result came first, and it held an issue without a source and
\* one tagged static; the static result held the same issue twice.
C17_Witness ==
  /\ stage = 1
  /\ x[1].source = "llm"
  /\ x[2].source = "static"
  /\ Len(x[1].issues) = 2
  /\ x[1].issues[1].source = ""
  /\ x[1].issues[2].source = "static"
  /\ Len(x[2].issues) = 2
  /\ x[2].issues[1] = x[2].issues[2]
  /\ Len(once) = 4
  /\ once[1].source = "llm"
  /\ once[2].source = "static"

-----------------------------------------------------------------------------
(* Properties of Formatter.format                                          *)

\* The first three letters of a severity, in capitals.
Abbreviation(severity) ==
  CASE severity = "critical" -> "CRI"
    [] severity = "high" -> "HIG"
    [] severity = "medium" -> "MED"
    [] severity = "low" -> "LOW"
    [] OTHER -> "INF"

\* The issue x[k] lacks an identifier: it is empty or blank.
LacksId(k) == x[k].id.tag \in {"", " "}

\* The issue out is what format makes of x[k]: the same finding, with its
\* id if it had one, else with an id made of the severity abbreviation, the
\* line and the index of the issue in x (from 0).
FormattedFrom(out, k) ==
  /\ out.title = x[k].title
  /\ out.severity = x[k].severity
  /\ out.line = x[k].line
  /\ out.id.tag # ""
  /\ IF LacksId(k)
     THEN /\ out.id.tag = Abbreviation(x[k].severity)
          /\ out.id.line = x[k].line
          /\ out.id.n = k - 1
     ELSE out.id = x[k].id

\* Every issue of x is found in once, each at a place of its own.
IdsAssigned ==
  /\ Len(once) = Len(x)
  /\ \E place \in [1..Len(x) -> 1..Len(x)] :
       /\ \A j, k \in 1..Len(x) : place[j] = place[k] => j = k
       /\ \A k \in 1..Len(x) : FormattedFrom(once[place[k]], k)

\* C18: after format every issue has a non-empty id; an issue that came
\* with an id keeps it, an issue without one gets an id made of the
\* severity abbreviation, the line and its index; and the ids of the
\* outcome are pairwise distinct.
C18_UniqueIds ==
  stage = 1 =>
    /\ IdsAssigned
    /\ \A j, k \in 1..Len(once) : once[j].id = once[k].id => j = k

\* C18, the part that holds: ids are kept or generated as stated, and the
\* generated ids are distinct from each other.
C18_IdsKeptOrGenerated ==
  stage = 1 =>
    /\ IdsAssigned
    /\ \A j, k \in 1..Len(once) :
         (once[j].id = once[k].id /\ once[j].id.tag \in {"CRI", "HIG", "MED", "LOW", "INF"})
           => j = k

-----------------------------------------------------------------------------
(* Properties of the metadata                                              *)

\* The scan passed validation and its language resolved to a supported one.
Admitted ==
  /\ ValidateInput(code, language) = ""
  /\ Detect(code, language) \in {"javascript", "typescript"}

\* The adapter has been invoked.
Invoked(tag) == \E k \in 1..Len(calls) : calls[k] = tag

\* C19: analyzersUsed lists the adapters that were invoked, not those that
\* succeeded: the outcome of a scan that passed validation and language
\* resolution lists static then llm, both having been invoked, whether they
\* failed or not; an outcome produced before the adapters were invoked
\* lists none.
C19_AnalyzersUsedAreInvoked ==
  pc = "done" =>
    IF Admitted
    THEN /\ result.metadata.analyzersUsed = <<"static", "llm">>
         /\ Invoked("static")
         /\ Invoked("llm")
    ELSE /\ result.metadata.analyzersUsed = <<>>
         /\ ~Invoked("static")
         /\ ~Invoked("llm")

\* A scan in which the pattern detector threw and the remote call timed out
\* has returned, and its metadata lists both adapters.
C19_Witness ==
  /\ pc = "done"
  /\ <<"static", "throw">> \in faults
  /\ <<"llm", "timeout">> \in faults
  /\ result.success
  /\ result.metadata.analyzersUsed = <<"static", "llm">>

-----------------------------------------------------------------------------
(* Properties of concurrent scans                                          *)

\* The outcome of an invocation run alone, on its arguments, with its
\* adapters doing what they did (threw, answer).
Alone(s) ==
  IF Refusal(s.code, s.language) # NoResult THEN Refusal(s.code, s.language)
  ELSE Finish(<<StaticOutcome(RunStaticAnalyzer(Parse(s.code), s.threw)),
                LLMOutcome(RunLLMAnalyzer(s.answer.outcome, s.answer.content,
                                          Parse(s.code)))>>,
              Detect(s.code, s.language), Parse(s.code), now, now)

\* C20: under every interleaving of two invocations of scan on one engine,
\* the outcome of each (issues, their order, errors, metadata) is the
\* outcome it produces when run alone.
C20_ScansDoNotInterfere ==
  \A i \in 1..2 : scans[i].pc = "done" => scans[i].result = Alone(scans[i])

\* One invocation has returned findings while the other, started on another
\* code, is between its two adapters.
C20_Witness ==
  /\ scans[1].pc = "done"
  /\ scans[1].result.success
  /\ scans[1].result.issues # <<>>
  /\ scans[2].pc = "analyzing"
  /\ scans[2].staticTask.status = "fulfilled"
  /\ scans[2].llmTask.status = "pending"
  /\ scans[2].code # scans[1].code

-----------------------------------------------------------------------------
(* The rate limit of the API server                                        *)

\* The requests of client that were let through (isAllowed returned true)
\* at a clock value of the interval from .. from + WindowMs - 1.
AllowedIn(client, from, upto) ==
  {k \in 1..upto : /\ responses[k].client = client
                   /\ responses[k].status # 429
                   /\ responses[k].at >= from
                   /\ responses[k].at < from + WindowMs}

\* C21: for any client, in any interval of windowMs at most maxRequests
\* calls of isAllowed return true, and every further request of the client
\* in such an interval is answered with status 429.
C21_LimitPerInterval ==
  /\ \A client \in Clients, from \in 0..now :
       Cardinality(AllowedIn(client, from, Len(responses))) <= MaxRequests
  /\ \A k \in 1..Len(responses) :
       (\E from \in 0..responses[k].at :
          /\ responses[k].at < from + WindowMs
          /\ Cardinality(AllowedIn(responses[k].client, from, k - 1)) >= MaxRequests)
       => responses[k].status = 429

\* Counted from the first request of a window of the limiter, at most
\* maxRequests requests of a client are let through until the window's
\* resetTime, and a request is answered 429 exactly when isAllowed refuses it.
C21_LimitPerWindow ==
  \A client \in DOMAIN requests :
    LET opened == requests[client].resetTime - WindowMs
    IN Cardinality({k \in 1..Len(responses) :
                      /\ responses[k].client = client
                      /\ responses[k].status # 429
                      /\ responses[k].at >= opened}) <= MaxRequests

\* The window stored for identifier has not expired, and is full.
Unexpired(identifier) ==
  identifier \in DOMAIN requests /\ now <= requests[identifier].resetTime

Full(identifier) ==
  Unexpired(identifier) /\ requests[identifier].count = MaxRequests

\* C29: after every call of isAllowed and every cleanup each stored entry
\* has 1 <= count <= maxRequests; isAllowed returns false exactly when the
\* identifier's window has not expired and its count equals maxRequests, and
\* then leaves the map as it was; the first call after the window's
\* resetTime has passed returns true and restarts the window with count 1.
C29_LimiterEntries ==
  [][ /\ \A id \in DOMAIN requests' :
           requests'[id].count >= 1 /\ requests'[id].count <= MaxRequests
      /\ Len(responses') > Len(responses) =>
           LET sent == responses'[Len(responses')]
               id == sent.client
           IN /\ (sent.status = 429) <=> Full(id)
              /\ sent.status = 429 => requests' = requests
              /\ (id \in DOMAIN requests /\ now > requests[id].resetTime)
                   => /\ sent.status # 429
                      /\ requests'[id] = Entry(1, now + WindowMs) ]_vars

\* A client was refused in a full window and, after the window's resetTime
\* had passed, let through again, which restarted its window.
C29_Witness ==
  \E j \in 1..Len(responses) :
    LET k == Len(responses)
    IN /\ j < k
       /\ responses[j].status = 429
       /\ responses[j].remaining = 0
       /\ responses[k].client = responses[j].client
       /\ responses[k].status # 429
       /\ responses[k].at > responses[j].at
       /\ responses[k].client \in DOMAIN requests
       /\ requests[responses[k].client] = Entry(1, responses[k].at + WindowMs)

-----------------------------------------------------------------------------
(* The clusters of deduplicate                                             *)

\* The anchors among the first i findings, dup telling which pairs of
\* indices are duplicates: a finding is an anchor when it is a duplicate of
\* no anchor before it.
RECURSIVE AnchorsUpTo(_, _)
AnchorsUpTo(dup, i) ==
  IF i = 0 THEN {}
  ELSE LET before == AnchorsUpTo(dup, i - 1)
       IN IF \E a \in before : dup[a][i] THEN before ELSE before \cup {i}

\* output is the merge of every anchor's cluster, in the order of the
\* anchors, where a cluster holds the anchor and the later findings that are
\* duplicates of the anchor itself and of no earlier anchor.
AnchorFirst(input, output) ==
  LET n == Len(input)
      dup == [a \in 1..n |-> [b \in 1..n |-> IsDuplicate(input[a], input[b])]]
      anchorSet == AnchorsUpTo(dup, n)
      anchors == Ascending(anchorSet)
      joins(j, a) ==
        /\ a < j
        /\ j \notin anchorSet
        /\ dup[a][j]
        /\ \A b \in anchorSet : b < a => ~dup[b][j]
  IN /\ Len(output) = Len(anchors)
     /\ \A k \in 1..Len(anchors) :
          LET members == Ascending({anchors[k]}
                                     \cup {j \in 1..n : joins(j, anchors[k])})
          IN output[k]
               = MergeDuplicates([m \in 1..Len(members) |-> input[members[m]]])

\* C22: clustering is anchor-first, in input order and not transitive: a
\* later finding joins the cluster of an anchor exactly when it is a
\* duplicate of the anchor itself and of no earlier anchor; a finding that
\* is a duplicate only of another member becomes an anchor itself.
C22_AnchorFirstClusters ==
  /\ stage >= 1 => AnchorFirst(x, once)
  /\ stage = 2 => AnchorFirst(once, twice)

\* Three findings in a chain: the second is a duplicate of the first, the
\* third of the second but not of the first; the third stays out of the
\* first's cluster.
C22_Witness ==
  /\ stage >= 1
  /\ Len(x) = 3
  /\ IsDuplicate(x[1], x[2])
  /\ IsDuplicate(x[2], x[3])
  /\ ~IsDuplicate(x[1], x[3])
  /\ Len(once) = 2
  /\ once[2] = x[3]

\* Three findings of which the third is a duplicate of both the first and
\* the second, which are no duplicates of each other: it has joined the
\* first.
C22_WitnessEarliest ==
  /\ stage >= 1
  /\ Len(x) = 3
  /\ ~IsDuplicate(x[1], x[2])
  /\ IsDuplicate(x[1], x[3])
  /\ IsDuplicate(x[2], x[3])
  /\ Len(once) = 2
  /\ once[2] = x[2]

\* How often issue occurs in a list.
Count(issues, issue) == Cardinality({k \in 1..Len(issues) : issues[k] = issue})

\* The members of sub occur in list, in the order of sub.
RECURSIVE IsSubsequence(_, _)
IsSubsequence(sub, list) ==
  IF sub = <<>> THEN TRUE
  ELSE IF list = <<>> THEN FALSE
  ELSE IF Head(sub) = Head(list) THEN IsSubsequence(Tail(sub), Tail(list))
  ELSE IsSubsequence(sub, Tail(list))

\* The clusters of input hold every finding of input exactly as often as
\* input does; their first members are findings of input in input order;
\* output has one finding per cluster, in the order of the clusters, taken
\* from the cluster (the identifier of one of its members), and the very
\* finding of a cluster of one.
Partition(input, output) ==
  LET cs == Clusters(input)
      all == Flatten(cs)
  IN /\ Len(all) = Len(input)
     /\ \A i \in 1..Len(input) : Count(all, input[i]) = Count(input, input[i])
     /\ \A k \in 1..Len(cs) : Len(cs[k]) >= 1 /\ IsSubsequence(cs[k], input)
     /\ IsSubsequence([k \in 1..Len(cs) |-> cs[k][1]], input)
     /\ Len(output) = Len(cs)
     /\ \A k \in 1..Len(cs) :
          /\ \E m \in 1..Len(cs[k]) : output[k].id = cs[k][m].id
          /\ Len(cs[k]) = 1 => output[k] = cs[k][1]
     /\ Len(output) <= Len(input)
     /\ output = <<>> <=> input = <<>>

\* C28: deduplicate partitions its input: every input finding is in exactly
\* one cluster, the output holds one finding per cluster in the order of the
\* clusters' anchors, a cluster of one is returned unchanged, the output is
\* no longer than the input and empty only for empty input.
C28_DeduplicatePartitions ==
  /\ stage >= 1 => Partition(x, once)
  /\ stage = 2 => Partition(once, twice)

\* Three different findings in two clusters: one of two members, whose merge
\* differs from both, and one of a single member, returned as it was.
C28_Witness ==
  /\ stage >= 1
  /\ Len(x) = 3
  /\ Cardinality({x[1], x[2], x[3]}) = 3
  /\ Len(once) = 2
  /\ \E k \in 1..2 :
       /\ once[k] \notin {x[1], x[2], x[3]}
       /\ once[3 - k] \in {x[1], x[2], x[3]}

-----------------------------------------------------------------------------
(* The response of the remote service, parsed and mapped                   *)

\* The payload of a response: what is left without the fence lines.
Payload(content) ==
  CHOOSE b \in {content[k] : k \in 1..Len(content)} :
    b.kind \notin {"fence", "fencejson"}

\* An element that has every required field.
HasRequired(element) == ~element.isNull /\ RequiredFields \subseteq element.has

\* C23: a payload that is not an array yields no finding; an array payload
\* yields exactly its elements that have every required field, in their
\* order, whatever the other elements are.
C23_TolerantPerElement ==
  stage >= 1 =>
    LET payload == Payload(x.content)
    IN IF payload.kind # "array" THEN once = <<>>
       ELSE once = SelectSeq(payload.elems, HasRequired)

\* The same, for arrays without a null element; an array with a null
\* element yields no finding at all.
C23_TolerantUnlessNull ==
  stage >= 1 =>
    LET payload == Payload(x.content)
    IN IF payload.kind # "array" THEN once = <<>>
       ELSE IF \E k \in 1..Len(payload.elems) : payload.elems[k].isNull
       THEN once = <<>>
       ELSE once = SelectSeq(payload.elems, HasRequired)

\* The text of the line a vulnerability refers to; no text if there is no
\* such line.
Referenced(vuln, lines) ==
  IF vuln.line \in 1..Len(lines) THEN lines[vuln.line].text ELSE ""

\* C24: every finding mapped from the response has the column bounds given,
\* and for a bound not given 0 as columnStart and the length of the line
\* referred to as columnEnd, each on its own; its line is the line reported,
\* also when the code has no such line; its source is llm.
C24_ColumnDefaults ==
  stage = 2 =>
    /\ Len(twice) = Len(once)
    /\ \A k \in 1..Len(once) :
         /\ twice[k].columnStart
              = IF "columnStart" \in once[k].has THEN once[k].columnStart ELSE 0
         /\ twice[k].columnEnd
              = IF "columnEnd" \in once[k].has THEN once[k].columnEnd
                ELSE Len(Referenced(once[k], x.lines))
         /\ twice[k].line = once[k].line
         /\ twice[k].source = "llm"

\* A response with a vulnerability that gives columnStart only, on a line
\* of the code, and one that gives no column and refers to no line of the
\* code.
C24_Witness ==
  /\ stage = 2
  /\ \E k \in 1..Len(once) :
       /\ once[k].has \cap {"columnStart", "columnEnd"} = {"columnStart"}
       /\ once[k].line \in 1..Len(x.lines)
       /\ twice[k].columnStart = once[k].columnStart
       /\ twice[k].columnEnd = Len(x.lines[once[k].line].text)
       /\ twice[k].columnEnd > 0
  /\ \E k \in 1..Len(once) :
       /\ once[k].has \cap {"columnStart", "columnEnd"} = {}
       /\ once[k].line \notin 1..Len(x.lines)
       /\ twice[k].line = once[k].line
       /\ twice[k].columnEnd = 0

-----------------------------------------------------------------------------
(* Language hints, parsing and the remote call within a scan               *)

\* The names and file extensions of the supported languages.
SupportedNames ==
  {"javascript", "typescript", "js", "jsx", "ts", "tsx", ".js", ".jsx", ".ts", ".tsx"}

\* The language argument names a language that is not supported.
UnsupportedHint ==
  /\ ~language.isNull
  /\ Trim(language.text) # ""
  /\ ToLowerCase(Trim(language.text)) \notin SupportedNames

\* C25: a scan of a non-empty text with a language hint that names an
\* unsupported language returns success=false, no issue and an error
\* containing 'Unsupported language'.
C25_UnsupportedHintRefused ==
  (pc = "done" /\ code.kind = "text" /\ UnsupportedHint) =>
    /\ ~result.success
    /\ result.issues = <<>>
    /\ result.hasErrors
    /\ \E k \in 1..Len(result.errors) :
         Contains(result.errors[k], "Unsupported language")

\* With such a hint the language is the one detected from the content, and
\* the scan is refused exactly when that one is not supported.
C25_HintFallsBackToContent ==
  (pc = "done" /\ code.kind = "text" /\ UnsupportedHint) =>
    /\ detected = code.content
    /\ result.success <=> code.content \in {"javascript", "typescript"}

\* C26: parse does not throw, and when tokenize fails it returns the line
\* split with an empty token list: every invocation of scan with a valid
\* input in a supported language goes on to its two adapters with the lines
\* of the code, and returns a successful outcome after both have run.
C26_ParseErrorRecovered ==
  \A i \in 1..2 :
    LET s == scans[i]
    IN (s.pc # "idle" /\ Refusal(s.code, s.language) = NoResult) =>
         /\ s.parsedCode = s.code.lines
         /\ s.tokenizeThrew => s.tokens = <<>>
         /\ s.staticTask # Idle
         /\ s.llmTask # Idle
         /\ s.pc = "done" =>
              /\ s.result.success
              /\ AllSettled(s.staticTask, s.llmTask)
              /\ s.result.metadata.linesOfCode = Len(s.code.lines)

\* An invocation on a code of two lines on which tokenize throws has run
\* both adapters and returned findings.
C26_Witness ==
  \E i \in 1..2 :
    /\ scans[i].tokenizeThrew
    /\ scans[i].tokens = <<>>
    /\ Len(scans[i].parsedCode) = 2
    /\ scans[i].pc = "done"
    /\ scans[i].result.success
    /\ scans[i].result.issues # <<>>

\* How often a collaborator was invoked.
Times(tag) == Cardinality({k \in 1..Len(calls) : calls[k] = tag})

\* C27: within one scan the remote service is called at most once, also
\* when the call fails or times out, and not at all when the input is
\* invalid or the language unsupported.
C27_NoRetry ==
  /\ Times("fetch") <= 1
  /\ Times("llm") <= 1
  /\ fetchState \in {"failed", "aborted"} => llmTask.status = "fulfilled"
  /\ ( /\ pc = "done"
       /\ \/ InvalidInput
          \/ code.kind = "number"
          \/ Detect(code, language) \notin {"javascript", "typescript"} )
     => /\ Times("fetch") = 0
        /\ Times("llm") = 0
        /\ fetchState = "none"

\* A scan whose one remote call timed out has returned.
C27_Witness ==
  /\ pc = "done"
  /\ fetchState = "aborted"
  /\ <<"llm", "timeout">> \in faults
  /\ Times("fetch") = 1
  /\ result.success

-----------------------------------------------------------------------------
(* The shapes of a scan outcome                                            *)

\* The diagnostic collected for a task whose promise was rejected, with the
\* tag of its adapter in front; none for a task that was fulfilled.
Diagnostic(tag, name, task) ==
  IF task.status = "rejected"
  THEN <<"[" \o tag \o "] " \o name \o " analyzer failed: " \o task.reason>>
  ELSE <<>>

\* C30: a scan outcome is either a failure with no issue, exactly one error,
\* no adapter listed and rule count 0, or a success with the formatted
\* issues whose errors field is set exactly when an adapter diagnostic was
\* collected, and then holds the diagnostics with their source tags, the
\* static adapter's before the llm adapter's.
C30_OutcomeShapes ==
  pc = "done" =>
    IF ~result.success
    THEN /\ result.issues = <<>>
         /\ result.hasErrors
         /\ Len(result.errors) = 1
         /\ result.metadata.analyzersUsed = <<>>
         /\ result.metadata.staticRulesApplied = 0
    ELSE LET diagnostics == Diagnostic("static", "Static", staticTask)
                              \o Diagnostic("llm", "LLM", llmTask)
         IN /\ result.issues
                 = Format(Deduplicate(aggregated), result.metadata, now).issues
            /\ result.hasErrors <=> diagnostics # <<>>
            /\ result.errors = diagnostics

\* A successful scan that carries the diagnostic of its static adapter and
\* the findings of the other.
C30_Witness ==
  /\ pc = "done"
  /\ result.success
  /\ staticTask.status = "rejected"
  /\ result.hasErrors
  /\ Len(result.errors) = 1
  /\ Contains(result.errors[1], "[static] ")
  /\ result.issues # <<>>

====
